---- MODULE Spec2Model ----
(***************************************************************************)
(* A model of api-endpoint-hunter: the crawl scheduler (src/src/crawler.py)*)
(* with the login sequence that precedes it (src/src/auth.py), the network *)
(* interceptor (src/src/interceptor.py), and the pure functions of         *)
(* src/src/models.py and src/src/analyzer.py.                              *)
(***************************************************************************)
EXTENDS Integers, Sequences, FiniteSets, TLC

VARIABLES
    \* ---- configuration (CrawlConfig), fixed at construction
    max_pages,          \* config.max_pages
    max_depth,          \* config.max_depth
    login_configured,   \* login_url and username and password are all set
    \* ---- Crawler
    pc,                 \* position of the crawl() coroutine
    visited_urls,       \* Crawler.visited_urls: set of normalized URLs
    urls_to_visit,      \* Crawler.urls_to_visit: deque of <<url, depth>>
    current_page_url,   \* Crawler.current_page_url
    cur_depth,          \* depth of the page being crawled by _crawl_page
    errors,             \* Crawler.errors
    navigated,          \* history: the urls handed to page.goto by _crawl_page
    skipped,            \* history: the urls dequeued and refused by _should_visit
    result,             \* what crawl() returns, once it has returned
    \* ---- AuthHandler
    auth_success,       \* the value setup_auth returned (read once login_path # "pending")
    login_path,         \* history: which return statement of _perform_login
    attempt,            \* loop variable of _handle_2fa
    code_requests,      \* history: how often a 2FA code was asked for
    wrong_codes,        \* history: attempts that ended with an error indicator
    page_url,           \* page.url as the login sequence observes it
    \* ---- CapturedEndpoint.endpoint_id on two captured requests
    req_a, req_b,       \* the requests of two captured endpoints
    fp_done,            \* the results below have been computed
    fp_a, fp_b,         \* their endpoint_id
    norm_once,          \* _normalize_path(path of req_a)
    norm_twice,         \* _normalize_path(norm_once)
    \* ---- EndpointAnalyzer._redact_object on one JSON value
    obj,                \* the value passed in
    redact_done,        \* _redact_object has returned
    redacted,           \* what it returned
    \* ---- APIInterceptor, and the browser events it handles
    requests,           \* history: the requests the page has issued; a
                        \* request object is known by its position here
    responded,          \* history: the requests whose response event fired
    captured_endpoints, \* APIInterceptor.captured_endpoints
    pending_requests,   \* APIInterceptor._pending_requests
    seen_api_patterns,  \* APIInterceptor._seen_api_patterns
    duplicate_count,    \* APIInterceptor._duplicate_count
    reading,            \* handle_response calls suspended at response.text()
    recorded,           \* history: the requests entered in the pending table
    captured_from,      \* history: for each captured endpoint, its request
    returned,           \* the list a caller got from get_captured_endpoints
    clear_calls,        \* history: for each call of clear(), the number of
                        \* requests issued before it
    \* ---- EndpointAnalyzer._infer_object_schema on one JSON object
    schema_obj,         \* the object passed in
    schema_done,        \* _infer_object_schema has returned
    schema_props,       \* what it returned
    \* ---- EndpointAnalyzer.analyze on one list of captured endpoints
    analyzer_input,     \* the list passed in
    filter_non_api,     \* EndpointAnalyzer.filter_non_api
    redact_sensitive,   \* EndpointAnalyzer.redact_sensitive
    analyze_done,       \* analyze() has returned
    analyzed,           \* what it returned
    \* ---- web/app.py: crawl_state and the tasks of run_crawl
    running,            \* crawl_state["running"]
    crawl_task,         \* crawl_state["crawl_task"]
    waiting_for_2fa,    \* crawl_state["waiting_for_2fa"]
    twofa_code,         \* crawl_state["2fa_code"]
    twofa_event,        \* crawl_state["2fa_event"]
    events_set,         \* the asyncio.Event objects that are set
    tasks,              \* the tasks created by start_crawl
    stops,              \* history: the calls of stop_crawl
    stop_waiting,       \* stop_crawl calls suspended in asyncio.wait_for
    stop_signalled,     \* history: the tasks alive at a call of stop_crawl
    \* ---- interceptor.py: one call of _should_capture
    filter_request,     \* the request handed to _should_capture
    filter_patterns,    \* config.include_patterns of the interceptor
    filter_done,        \* the call has returned
    filter_result,      \* what it returned
    \* ---- analyzer.py: one call of _redact_sensitive_data
    group_members,      \* the captured endpoints of one key, groups[endpoint_id]
    group_passed,       \* the EndpointGroup passed in, as the caller sees it
    group_before,       \* history: its value when the call was made
    group_returned,     \* the EndpointGroup returned
    shared_nodes,       \* the fields whose objects the two groups share
    group_redacted      \* the call has returned

crawlVars == <<pc, visited_urls, urls_to_visit, current_page_url, cur_depth,
               errors, navigated, skipped, result>>
authVars == <<auth_success, login_path, attempt, code_requests, wrong_codes,
              page_url>>
cfgVars == <<max_pages, max_depth, login_configured>>
fpVars == <<req_a, req_b, fp_done, fp_a, fp_b, norm_once, norm_twice>>
\* what no step of the crawl or of the login touches
jsonVars == <<obj, redact_done, redacted>>
icptVars == <<requests, responded, captured_endpoints, pending_requests,
              seen_api_patterns, duplicate_count, reading, recorded,
              captured_from, returned, clear_calls>>
schemaVars == <<schema_obj, schema_done, schema_props>>
\* what neither the crawler, the interceptor nor the functions above touch
analyzerVars == <<analyzer_input, filter_non_api, redact_sensitive,
                  analyze_done, analyzed>>
webVars == <<running, crawl_task, waiting_for_2fa, twofa_code, twofa_event,
             events_set, tasks, stops, stop_waiting, stop_signalled>>
filterVars == <<filter_request, filter_patterns, filter_done, filter_result>>
copyVars == <<group_members, group_passed, group_before, group_returned,
              shared_nodes, group_redacted>>
outerVars == <<schemaVars, analyzerVars, webVars, filterVars, copyVars>>
nonCrawlVars == <<fpVars, jsonVars, icptVars, outerVars>>
vars == <<cfgVars, crawlVars, authVars, nonCrawlVars>>

\* ---- bounds of the model
MaxPagesBound == 3
MaxDepthBound == 2
MaxLinks == 2

(***************************************************************************)
(* URLs as urlparse() splits them.  A path is stem + ext (+ "/"): ext is   *)
(* the part of the path from its last "." on, or "" when it has none.  A   *)
(* query is the sequence of its "&"-separated tokens, <<>> for no query.   *)
(* A token is a number whose order is the alphabetical order of the token  *)
(* text it stands for (1: "b=1", 2: "c=2").                                *)
(***************************************************************************)
Path(stem, ext, slash) == [stem |-> stem, ext |-> ext, slash |-> slash]

Url(scheme, netloc, path, query, fragment) ==
    [scheme |-> scheme, netloc |-> netloc, path |-> path, query |-> query,
     fragment |-> fragment]

start_url == Url("https", "site", Path("", "", TRUE), <<>>, "")

SiteUrls ==
    { start_url,
      Url("https", "site", Path("/a", "", FALSE), <<1, 2>>, ""),
      Url("https", "site", Path("/a", "", FALSE), <<2, 1>>, "top"),
      Url("https", "site", Path("/b", "", TRUE), <<>>, ""),
      Url("https", "site", Path("/logo", ".PNG", FALSE), <<>>, ""),
      Url("https", "site", Path("/sockjs-node/info", "", FALSE), <<>>, ""),
      Url("https", "other", Path("/a", "", FALSE), <<>>, "") }

RECURSIVE SeqsUpTo(_, _)
SeqsUpTo(S, n) ==
    IF n = 0 THEN {<<>>}
    ELSE LET shorter == SeqsUpTo(S, n - 1)
         IN shorter \cup {Append(s, x) : s \in {t \in shorter : Len(t) = n - 1}, x \in S}

\* sorted(): insertion into an already sorted sequence, then list sort
RECURSIVE InsertSorted(_, _)
InsertSorted(x, s) ==
    IF s = <<>> THEN <<x>>
    ELSE IF x <= Head(s) THEN <<x>> \o s
    ELSE <<Head(s)>> \o InsertSorted(x, Tail(s))

RECURSIVE sorted(_)
sorted(s) == IF s = <<>> THEN <<>> ELSE InsertSorted(Head(s), sorted(Tail(s)))

\* str.lower() on the extensions the model uses
Lower(ext) == IF ext = ".PNG" THEN ".png" ELSE ext

skip_extensions ==
    { ".png", ".jpg", ".jpeg", ".gif", ".svg", ".ico", ".css", ".js", ".woff",
      ".woff2", ".ttf", ".eot", ".pdf", ".zip", ".tar", ".gz", ".mp4", ".mp3" }

base_domain == start_url.netloc

_is_same_origin(url) == url.netloc = base_domain

\* The query tokens are kept in the order the url gives them.
NormalizeUnsorted(url) ==
    [scheme |-> url.scheme, netloc |-> url.netloc,
     path |-> IF url.query # <<>> THEN url.path
              ELSE [url.path EXCEPT !.slash = FALSE],
     query |-> url.query]

\* scheme://netloc/path, "?" and the sorted tokens when there is a query,
\* trailing "/" stripped (no token of the model ends in "/"); no fragment.
_normalize_url(url) ==
    [scheme |-> url.scheme, netloc |-> url.netloc,
     path |-> IF url.query # <<>> THEN url.path
              ELSE [url.path EXCEPT !.slash = FALSE],
     query |-> sorted(url.query)]

\* path.lower().endswith(ext) for some ext of skip_extensions: every such
\* ext is "." and dot-free text, so the path ends with it exactly when the
\* part from its last "." on is that ext and nothing follows.
EndsWithSkipExtension(url) ==
    /\ ~url.path.slash
    /\ Lower(url.path.ext) \in skip_extensions

_should_visit(url, visited) ==
    /\ _is_same_origin(url)
    /\ ~EndsWithSkipExtension(url)
    /\ _normalize_url(url) \notin visited


(***************************************************************************)
(* The login sequence: AuthHandler.setup_auth and what it calls.           *)
(***************************************************************************)
\* A page url as the login checks read it: its path, and which of the words
\* "login", "signin", "auth" its lower-cased text contains.
PageUrl(path, words) == [path |-> path, words |-> words]

blank_page == PageUrl("", {})
login_url == PageUrl("/login", {"login"})
start_page == PageUrl("/", {})

\* where the browser can be after the form was submitted
AfterSubmitUrls ==
    { login_url, PageUrl("/dashboard", {}), PageUrl("/verify-code", {}) }

\* where the browser can be after page.goto(start_url)
AfterGotoStartUrls ==
    { start_page, login_url, PageUrl("/signin", {"signin"}),
      PageUrl("/oauth/authorize", {"auth"}), PageUrl("/welcome", {}) }

max_attempts == 3

LooksLikeLoginPage(url) ==
    "login" \in url.words \/ "signin" \in url.words \/ "auth" \in url.words

\* for attempt in range(max_attempts), off by one
LoopContinuesInclusive(a) == a <= max_attempts

\* for attempt in range(max_attempts)
AttemptsLeft(a) == a < max_attempts

\* crawl() stops when the login failed
AbortOnAuthFailure(ok) == IF ok THEN "loop" ELSE "done"

\* crawl() after setup_auth returned: a warning when it failed, then the loop
AfterAuth(ok) == "loop"

\* setup_auth returns `ok` to crawl(), which seeds the frontier
AuthReturns(ok, how) ==
    /\ auth_success' = ok
    /\ login_path' = how
    /\ pc' = AfterAuth(ok)
    /\ urls_to_visit' = Append(urls_to_visit, <<start_url, 0>>)
    /\ UNCHANGED <<cfgVars, visited_urls, current_page_url, cur_depth, errors,
                   navigated, skipped, result, nonCrawlVars>>

AuthStep(next) ==
    /\ pc' = next
    /\ UNCHANGED <<cfgVars, visited_urls, urls_to_visit, current_page_url,
                   cur_depth, errors, navigated, skipped, result,
                   auth_success, login_path, nonCrawlVars>>

\* setup_auth: form login only when login url, username and password are set
SetupAuth ==
    /\ pc = "setup_auth"
    /\ IF login_configured
       THEN AuthStep("login_goto") /\ UNCHANGED <<attempt, code_requests, wrong_codes, page_url>>
       ELSE AuthReturns(TRUE, "no_login") /\ UNCHANGED <<attempt, code_requests, wrong_codes, page_url>>

\* _perform_login: page.goto(login_url), the two fields, fill and submit
LoginSubmit ==
    /\ pc = "login_goto"
    /\ UNCHANGED <<attempt, code_requests, wrong_codes>>
    /\ \E goto_ok \in BOOLEAN, username_found \in BOOLEAN,
          password_found \in BOOLEAN, submit_ok \in BOOLEAN :
        IF ~goto_ok
        THEN AuthReturns(FALSE, "exception") /\ UNCHANGED page_url
        ELSE IF ~username_found \/ ~password_found
        THEN AuthReturns(FALSE, "no_field") /\ page_url' = login_url
        ELSE IF ~submit_ok
        THEN AuthReturns(FALSE, "exception") /\ page_url' = login_url
        ELSE /\ AuthStep("login_submitted")
             /\ page_url' \in AfterSubmitUrls

\* _perform_login after the submission: the redirect check, the visible
\* error element, the 2FA detection
LoginCheck ==
    /\ pc = "login_submitted"
    /\ UNCHANGED <<attempt, code_requests, wrong_codes, page_url>>
    /\ IF page_url.path # login_url.path
       THEN AuthReturns(TRUE, "redirected")
       ELSE \E error_visible \in BOOLEAN, is_2fa \in BOOLEAN :
            IF error_visible THEN AuthReturns(FALSE, "login_error")
            ELSE IF is_2fa THEN AuthStep("twofa_find")
            ELSE AuthStep("verify")

\* _handle_2fa: _find_2fa_input
TwofaFindInput ==
    /\ pc = "twofa_find"
    /\ UNCHANGED <<code_requests, wrong_codes, page_url>>
    /\ \E input_found \in BOOLEAN :
        IF input_found
        THEN AuthStep("twofa_ask") /\ attempt' = 0
        ELSE AuthReturns(FALSE, "twofa_no_input") /\ UNCHANGED attempt

\* a loop in which a blank code does not use up an attempt
TwofaAskBlankFree ==
    /\ pc = "twofa_ask"
    /\ AttemptsLeft(attempt)
    /\ code_requests < max_attempts + 1
    /\ code_requests' = code_requests + 1
    /\ UNCHANGED <<wrong_codes, page_url>>
    /\ \E answer \in {"raises", "blank", "code"} :
        CASE answer = "raises" -> AuthReturns(FALSE, "exception") /\ UNCHANGED attempt
          [] answer = "blank" -> AuthStep("twofa_ask") /\ UNCHANGED attempt
          [] answer = "code" -> AuthStep("twofa_enter") /\ UNCHANGED attempt

\* _handle_2fa: one pass of the loop up to the code: the provider is asked;
\* it raises, or returns a blank code (continue), or returns a code
TwofaAsk ==
    /\ pc = "twofa_ask"
    /\ AttemptsLeft(attempt)
    /\ code_requests' = code_requests + 1
    /\ UNCHANGED <<wrong_codes, page_url>>
    /\ \E answer \in {"raises", "blank", "code"} :
        CASE answer = "raises" -> AuthReturns(FALSE, "exception") /\ UNCHANGED attempt
          [] answer = "blank" -> AuthStep("twofa_ask") /\ attempt' = attempt + 1
          [] answer = "code" -> AuthStep("twofa_enter") /\ UNCHANGED attempt

\* _handle_2fa: the code is filled in and submitted, then the page is read
TwofaEnter ==
    /\ pc = "twofa_enter"
    /\ UNCHANGED <<code_requests, page_url>>
    /\ \E entered \in BOOLEAN, still_2fa \in BOOLEAN, error_found \in BOOLEAN :
        IF ~entered
        THEN AuthStep("twofa_ask") /\ attempt' = attempt + 1 /\ UNCHANGED wrong_codes
        ELSE IF ~still_2fa
        THEN AuthStep("verify") /\ UNCHANGED <<attempt, wrong_codes>>
        ELSE IF error_found
        THEN AuthStep("twofa_ask") /\ attempt' = attempt + 1
             /\ wrong_codes' = wrong_codes + 1
        ELSE AuthStep("verify") /\ UNCHANGED <<attempt, wrong_codes>>

\* _handle_2fa: the loop ran out, return False; _perform_login returns False
TwofaExhausted ==
    /\ pc = "twofa_ask"
    /\ ~AttemptsLeft(attempt)
    /\ AuthReturns(FALSE, "twofa_exhausted")
    /\ UNCHANGED <<attempt, code_requests, wrong_codes, page_url>>

\* _perform_login: page.goto(start_url) and the check of the url it lands on
LoginVerify ==
    /\ pc = "verify"
    /\ UNCHANGED <<attempt, code_requests, wrong_codes>>
    /\ \E goto_ok \in BOOLEAN :
        IF ~goto_ok
        THEN AuthReturns(FALSE, "exception") /\ UNCHANGED page_url
        ELSE \E landed \in AfterGotoStartUrls :
            /\ page_url' = landed
            /\ IF LooksLikeLoginPage(landed)
               THEN AuthReturns(FALSE, "back_on_login")
               ELSE AuthReturns(TRUE, "verified")

\* setup_auth as crawl() sees it: it returns True or False
SetupAuthReturns ==
    /\ pc = "setup_auth"
    /\ \E ok \in BOOLEAN : AuthReturns(ok, "returned")
    /\ UNCHANGED <<attempt, code_requests, wrong_codes, page_url>>


(***************************************************************************)
(* Text.  A string is a sequence of one-character strings; a path is the   *)
(* sequence of its parts, path.split("/"): "/users/42" is                  *)
(* <<"", "users", "42">>.  No part holds a "/", so "/".join and split are  *)
(* inverse on these sequences.                                             *)
(***************************************************************************)
Rep(c, n) == [i \in 1..n |-> c]

Digits == {"0", "1", "2", "3", "4", "5", "6", "7", "8", "9"}

LowerHexLetters == {"a", "b", "c", "d", "e", "f"}

UpperHexLetters == {"A", "B", "C", "D", "E", "F"}

\* [0-9a-f] under re.I
IsHexChar(c) == c \in Digits \cup LowerHexLetters \cup UpperHexLetters

\* [0-9a-f] without re.I
IsLowerHexChar(c) == c \in Digits \cup LowerHexLetters

\* ^[0-9a-f]{8}-[0-9a-f]{4}-[0-9a-f]{4}-[0-9a-f]{4}-[0-9a-f]{12}$ with re.I
MatchesUuid(part) ==
    /\ Len(part) = 36
    /\ \A i \in 1..36 :
        IF i \in {9, 14, 19, 24} THEN part[i] = "-" ELSE IsHexChar(part[i])

\* ^\d+$ (a url path holds no raw newline and no non-ASCII digit)
MatchesDigits(part) ==
    /\ Len(part) >= 1
    /\ \A i \in 1..Len(part) : part[i] \in Digits

\* ^[0-9a-f]{24}$ with re.I
MatchesObjectId(part) ==
    /\ Len(part) = 24
    /\ \A i \in 1..24 : IsHexChar(part[i])

id_placeholder == <<"{", "i", "d", "}">>

\* the three tests with re.I left out
NormalizePartCaseSensitive(part) ==
    IF /\ Len(part) = 36
       /\ \A i \in 1..36 :
            IF i \in {9, 14, 19, 24} THEN part[i] = "-" ELSE IsLowerHexChar(part[i])
    THEN id_placeholder
    ELSE IF MatchesDigits(part) THEN id_placeholder
    ELSE IF Len(part) = 24 /\ \A i \in 1..24 : IsLowerHexChar(part[i])
    THEN id_placeholder
    ELSE part

\* the body of the loop of _normalize_path: uuid, numeric id, object id
NormalizePart(part) ==
    IF MatchesUuid(part) THEN id_placeholder
    ELSE IF MatchesDigits(part) THEN id_placeholder
    ELSE IF MatchesObjectId(part) THEN id_placeholder
    ELSE part

\* return "/" + "/".join(normalized)
NormalizePathExtraSlash(parts) ==
    << <<>> >> \o [i \in 1..Len(parts) |-> NormalizePart(parts[i])]

\* CapturedEndpoint._normalize_path, on the parts of the path
_normalize_path(parts) == [i \in 1..Len(parts) |-> NormalizePart(parts[i])]

\* a captured request: the method, and the url as urlparse splits it
Request(method, netloc, parts, query, body) ==
    [method |-> method, netloc |-> netloc, parts |-> parts, query |-> query,
     body |-> body]

\* CapturedEndpoint.endpoint_id: the first 12 hex digits of the md5 of
\* "{method}:{normalized path}".  The model keeps the hashed key.
endpoint_id(request) == <<request.method, _normalize_path(request.parts)>>

seg_users == <<"u", "s", "e", "r", "s">>
seg_42 == <<"4", "2">>
seg_uuid == Rep("a", 8) \o <<"-">> \o Rep("1", 4) \o <<"-">> \o Rep("F", 4)
            \o <<"-">> \o Rep("0", 4) \o <<"-">> \o Rep("c", 12)
seg_objectid == Rep("5", 12) \o Rep("E", 6) \o Rep("b", 6)
\* 23 hex characters: neither a number nor an object id
seg_short_hex == Rep("5", 12) \o Rep("e", 11)

PathParts == {seg_users, seg_42, seg_uuid, seg_objectid, seg_short_hex, id_placeholder}

MaxSegments == 2

\* the absolute paths of up to MaxSegments parts: "" before the first "/"
FpPaths == {<< <<>> >> \o p : p \in SeqsUpTo(PathParts, MaxSegments)}

FpIdle ==
    /\ req_a = Request("GET", "site", << <<>> >>, <<>>, "")
    /\ req_b = Request("GET", "site", << <<>> >>, <<>>, "")
    /\ fp_done = FALSE
    /\ fp_a = <<>>
    /\ fp_b = <<>>
    /\ norm_once = <<>>
    /\ norm_twice = <<>>

(***************************************************************************)
(* JSON values and the redaction of EndpointAnalyzer.  A value is a record *)
(* [t, v]: a dict (v a function on its keys), a list (v a sequence), a str *)
(* or an int.  Keys are strings as sequences of characters.                *)
(***************************************************************************)
UpperLetters ==
    <<"A", "B", "C", "D", "E", "F", "G", "H", "I", "J", "K", "L", "M", "N", "O", "P", "Q", "R", "S", "T", "U", "V", "W", "X", "Y", "Z">>

LowerLetters ==
    <<"a", "b", "c", "d", "e", "f", "g", "h", "i", "j", "k", "l", "m", "n", "o", "p", "q", "r", "s", "t", "u", "v", "w", "x", "y", "z">>

\* str.lower(), one character
LowerChar(c) ==
    IF \E i \in 1..26 : UpperLetters[i] = c
    THEN LowerLetters[CHOOSE i \in 1..26 : UpperLetters[i] = c]
    ELSE c

\* str.lower()
lower(name) == [i \in 1..Len(name) |-> LowerChar(name[i])]

\* sub in text
IsSubstring(sub, text) ==
    \E k \in 0..(Len(text) - Len(sub)) :
        \A i \in 1..Len(sub) : text[k + i] = sub[i]

SENSITIVE_FIELDS ==
    { <<"p", "a", "s", "s", "w", "o", "r", "d">>,
      <<"p", "a", "s", "s", "w", "d">>,
      <<"p", "w", "d">>,
      <<"p", "a", "s", "s">>,
      <<"s", "e", "c", "r", "e", "t">>,
      <<"t", "o", "k", "e", "n">>,
      <<"a", "p", "i", "_", "k", "e", "y">>,
      <<"a", "p", "i", "k", "e", "y">>,
      <<"a", "p", "i", "-", "k", "e", "y">>,
      <<"a", "u", "t", "h">>,
      <<"a", "u", "t", "h", "o", "r", "i", "z", "a", "t", "i", "o", "n">>,
      <<"b", "e", "a", "r", "e", "r">>,
      <<"c", "r", "e", "d", "e", "n", "t", "i", "a", "l">>,
      <<"p", "r", "i", "v", "a", "t", "e">>,
      <<"k", "e", "y">>,
      <<"s", "e", "s", "s", "i", "o", "n">>,
      <<"c", "o", "o", "k", "i", "e">>,
      <<"j", "w", "t">>,
      <<"a", "c", "c", "e", "s", "s", "_", "t", "o", "k", "e", "n">>,
      <<"r", "e", "f", "r", "e", "s", "h", "_", "t", "o", "k", "e", "n">>,
      <<"c", "l", "i", "e", "n", "t", "_", "s", "e", "c", "r", "e", "t">>,
      <<"c", "l", "i", "e", "n", "t", "_", "i", "d">> }

\* the test without name.lower()
IsSensitiveCaseSensitive(name) ==
    \E sensitive \in SENSITIVE_FIELDS : IsSubstring(sensitive, name)

\* EndpointAnalyzer._is_sensitive_field
_is_sensitive_field(name) ==
    LET name_lower == lower(name)
    IN \E sensitive \in SENSITIVE_FIELDS : IsSubstring(sensitive, name_lower)

JDict(f) == [t |-> "dict", v |-> f]
JList(items) == [t |-> "list", v |-> items]
\* a str holds its characters
JStr(text) == [t |-> "str", v |-> text]
JInt(n) == [t |-> "int", v |-> n]

REDACTED == JStr(<<"*", "*", "*", "R", "E", "D", "A", "C", "T", "E", "D", "*", "*", "*">>)

\* lists are returned as they are
RECURSIVE RedactObjectSkipLists(_)
RedactObjectSkipLists(o) ==
    IF o.t = "dict"
    THEN JDict([key \in DOMAIN o.v |->
                 IF _is_sensitive_field(key) THEN REDACTED
                 ELSE RedactObjectSkipLists(o.v[key])])
    ELSE o

\* EndpointAnalyzer._redact_object
RECURSIVE RedactObject(_)
RedactObject(o) ==
    IF o.t = "dict"
    THEN JDict([key \in DOMAIN o.v |->
                 IF _is_sensitive_field(key) THEN REDACTED
                 ELSE RedactObject(o.v[key])])
    ELSE IF o.t = "list"
    THEN JList([i \in 1..Len(o.v) |-> RedactObject(o.v[i])])
    ELSE o

_redact_object(o) == RedactObject(o)

key_name == <<"n", "a", "m", "e">>
key_user == <<"u", "s", "e", "r">>
key_password == <<"m", "y", "P", "a", "s", "s", "W", "o", "r", "d">>

JsonKeys == {key_name, key_user, key_password}

MaxKeys == 2
MaxItems == 1

JsonScalars == {JStr(<<"x">>), JInt(1)}

\* the dicts of up to MaxKeys keys and the lists of up to MaxItems items
\* over the values of S
Containers(S) ==
    {JDict(f) : f \in UNION {[K -> S] : K \in {K \in SUBSET JsonKeys : Cardinality(K) <= MaxKeys}}}
    \cup {JList(items) : items \in SeqsUpTo(S, MaxItems)}

\* values nested up to two containers deep
JsonValues == JsonScalars \cup Containers(JsonScalars \cup Containers(JsonScalars))

JsonIdle ==
    /\ obj = JInt(1)
    /\ redact_done = FALSE
    /\ redacted = JInt(1)

(***************************************************************************)
(* The crawl loop: Crawler.crawl and Crawler._crawl_page.                  *)
(***************************************************************************)
\* the empty string, as urlparse splits it
no_url == Url("", "", Path("", "", FALSE), <<>>, "")

\* while ... and len(self.visited_urls) <= self.config.max_pages
LoopGuardInclusive(queue, visited) ==
    queue # <<>> /\ Cardinality(visited) <= max_pages

\* while self.urls_to_visit and len(self.visited_urls) < self.config.max_pages
LoopGuard(queue, visited) ==
    queue # <<>> /\ Cardinality(visited) < max_pages

\* for link in new_links: if len(visited) < max_pages: append
RECURSIVE EnqueueByLoopGuard(_, _, _, _)
EnqueueByLoopGuard(queue, links, depth, visited) ==
    IF links = <<>> THEN queue
    ELSE EnqueueByLoopGuard(IF Cardinality(visited) < max_pages
                            THEN Append(queue, <<Head(links), depth + 1>>)
                            ELSE queue,
                            Tail(links), depth, visited)

\* for link in new_links: append
RECURSIVE EnqueueAll(_, _, _, _)
EnqueueAll(queue, links, depth, visited) ==
    IF links = <<>> THEN queue
    ELSE EnqueueAll(Append(queue, <<Head(links), depth + 1>>),
                    Tail(links), depth, visited)

\* for link in new_links: if len(visited) + len(queue) < max_pages: append
RECURSIVE Enqueue(_, _, _, _)
Enqueue(queue, links, depth, visited) ==
    IF links = <<>> THEN queue
    ELSE Enqueue(IF Cardinality(visited) + Len(queue) < max_pages
                 THEN Append(queue, <<Head(links), depth + 1>>)
                 ELSE queue,
                 Tail(links), depth, visited)

\* a visit that leaves the visited set as it is
VisitedLeftAlone(visited, normalized) == visited

\* _crawl_page: self.visited_urls.add(normalized), before page.goto
MarkVisited(visited, normalized) == visited \cup {normalized}

\* the first entry read and left in the deque
PeekLeft(queue) == [item |-> Head(queue), rest |-> queue]

\* deque.pop(): the last entry, and the deque without it
PopRight(queue) ==
    [item |-> queue[Len(queue)], rest |-> SubSeq(queue, 1, Len(queue) - 1)]

\* deque.popleft(): the first entry, and the deque without it
popleft(queue) == [item |-> Head(queue), rest |-> Tail(queue)]

\* One pass of the loop up to the first await of _crawl_page: popleft, the
\* _should_visit test (continue when it fails), then _crawl_page adds the
\* normalized url to the visited set and calls page.goto(url).
Dequeue ==
    /\ pc = "loop"
    /\ LoopGuard(urls_to_visit, visited_urls)
    /\ LET url == popleft(urls_to_visit).item[1]
           depth == popleft(urls_to_visit).item[2]
       IN /\ urls_to_visit' = popleft(urls_to_visit).rest
          /\ IF ~_should_visit(url, visited_urls)
             THEN /\ skipped' = skipped \cup {url}
                  /\ UNCHANGED <<pc, visited_urls, current_page_url,
                                 cur_depth, navigated>>
             ELSE IF _normalize_url(url) \in visited_urls
             THEN UNCHANGED <<pc, visited_urls, current_page_url, cur_depth,
                              navigated, skipped>>
             ELSE /\ visited_urls' = MarkVisited(visited_urls, _normalize_url(url))
                  /\ UNCHANGED skipped
                  /\ current_page_url' = url
                  /\ cur_depth' = depth
                  /\ navigated' = Append(navigated, url)
                  /\ pc' = "page"
    /\ UNCHANGED <<cfgVars, errors, result, authVars, nonCrawlVars>>

\* if depth <= self.config.max_depth
FollowsLinksInclusive(depth) == depth <= max_depth

\* _crawl_page: if depth < self.config.max_depth, the links are extracted
FollowsLinks(depth) == depth < max_depth

\* _crawl_page returns normally: the links of the page when depth < max_depth
\* (_extract_links may log one error and still return what it has), filtered
\* by _should_visit; crawl() then enqueues them at depth + 1.
PageOk ==
    /\ pc = "page"
    /\ IF FollowsLinks(cur_depth)
       THEN \E links \in SeqsUpTo(SiteUrls, MaxLinks), extract_failed \in BOOLEAN :
            LET valid_links == SelectSeq(links, LAMBDA l : _should_visit(l, visited_urls))
            IN /\ errors' = IF extract_failed
                            THEN Append(errors, [kind |-> "links", url |-> current_page_url])
                            ELSE errors
               /\ urls_to_visit' = Enqueue(urls_to_visit, valid_links, cur_depth, visited_urls)
       ELSE UNCHANGED <<errors, urls_to_visit>>
    /\ pc' = "loop"
    /\ cur_depth' = 0
    /\ UNCHANGED <<cfgVars, visited_urls, current_page_url, navigated, skipped,
                   result, authVars, nonCrawlVars>>

\* an exception of the visit that leaves _crawl_page and ends crawl()
PageFailAborts ==
    /\ pc = "page"
    /\ errors' = Append(errors, [kind |-> "crawl", url |-> current_page_url])
    /\ pc' = "done"
    /\ cur_depth' = 0
    /\ UNCHANGED <<cfgVars, visited_urls, urls_to_visit, current_page_url,
                   navigated, skipped, result, authVars, nonCrawlVars>>

\* _crawl_page catches an exception of the visit: one message, no links
PageFail ==
    /\ pc = "page"
    /\ errors' = Append(errors, [kind |-> "crawl", url |-> current_page_url])
    /\ pc' = "loop"
    /\ cur_depth' = 0
    /\ UNCHANGED <<cfgVars, visited_urls, urls_to_visit, current_page_url,
                   navigated, skipped, result, authVars, nonCrawlVars>>

\* the loop ends: browser.close(), the result is compiled and returned
Finish ==
    /\ pc = "loop"
    /\ ~LoopGuard(urls_to_visit, visited_urls)
    /\ pc' = "done"
    /\ result' = [returned |-> TRUE, pages_visited |-> visited_urls,
                  errors |-> errors, captured |-> captured_endpoints]
    /\ UNCHANGED <<cfgVars, visited_urls, urls_to_visit, current_page_url,
                   cur_depth, errors, navigated, skipped, authVars,
                   nonCrawlVars>>

(***************************************************************************)
(* The network interceptor: APIInterceptor.                                *)
(***************************************************************************)
\* a request of the browser: Request.method, .url (as urlparse splits it,
\* the query as its <<key, value>> pairs), .resource_type, .post_data
BrowserRequest(method, netloc, parts, query, resource_type, post_data) ==
    [method |-> method, netloc |-> netloc, parts |-> parts, query |-> query,
     resource_type |-> resource_type, post_data |-> post_data]

HttpMethod == {"GET", "POST", "PUT", "PATCH", "DELETE", "HEAD", "OPTIONS"}

\* text.endswith(suffix)
EndsWith(text, suffix) ==
    /\ Len(text) >= Len(suffix)
    /\ \A i \in 1..Len(suffix) : text[Len(text) - Len(suffix) + i] = suffix[i]

\* text.startswith(prefix)
StartsWith(text, prefix) ==
    /\ Len(text) >= Len(prefix)
    /\ \A i \in 1..Len(prefix) : text[i] = prefix[i]

\* the extensions of the first default exclude pattern, each with its "."
excluded_extensions ==
    { <<".", "p", "n", "g">>,
      <<".", "j", "p", "g">>,
      <<".", "j", "p", "e", "g">>,
      <<".", "g", "i", "f">>,
      <<".", "s", "v", "g">>,
      <<".", "i", "c", "o">>,
      <<".", "c", "s", "s">>,
      <<".", "j", "s">>,
      <<".", "w", "o", "f", "f">>,
      <<".", "w", "o", "f", "f", "2">>,
      <<".", "t", "t", "f">>,
      <<".", "e", "o", "t">> }

seg_sockjs_node == <<"s", "o", "c", "k", "j", "s", "-", "n", "o", "d", "e">>
seg_hot_update_json == <<"h", "o", "t", "-", "u", "p", "d", "a", "t", "e", ".", "j", "s", "o", "n">>

\* some default exclude pattern matches the url of the request (re.match):
\*   .*\.(png|...|eot)(\?.*)?$   .*/sockjs-node/.*   .*/hot-update\.json$
\* No query value of the model holds a "." or a "/".
ExcludePatternMatches(request) ==
    LET parts == request.parts
        last == parts[Len(parts)]
    IN \/ \E ext \in excluded_extensions : EndsWith(last, ext)
       \/ \E i \in 2..(Len(parts) - 1) : parts[i] = seg_sockjs_node
       \/ Len(parts) >= 2 /\ last = seg_hot_update_json /\ request.query = <<>>

\* config.include_patterns: none by default.  A pattern of the model is
\* "https://<netloc>/<leading parts>/.*"
include_patterns == {}

\* pattern.match(url), for an include pattern
IncludePatternMatches(pattern, request) ==
    /\ request.netloc = pattern.netloc
    /\ Len(request.parts) > Len(pattern.parts)
    /\ \A i \in 1..Len(pattern.parts) : request.parts[i] = pattern.parts[i]

\* the indicators "/api/", "/v1/", "/v2/", "/v3/", "/rest/", "/data/",
\* "/ajax/", "/json/": a whole part with a "/" on both sides
api_indicator_parts ==
    { <<"a", "p", "i">>, <<"v", "1">>, <<"v", "2">>, <<"v", "3">>, <<"r", "e", "s", "t">>, <<"d", "a", "t", "a">>, <<"a", "j", "a", "x">>, <<"j", "s", "o", "n">> }

seg_graphql == <<"g", "r", "a", "p", "h", "q", "l">>

\* any(indicator in path for indicator in api_indicators), path lower-cased
HasApiIndicator(parts) ==
    \/ \E i \in 2..(Len(parts) - 1) : lower(parts[i]) \in api_indicator_parts
    \/ \E i \in 2..Len(parts) : StartsWith(lower(parts[i]), seg_graphql)

\* the filter with the include test placed before the exclude test
ShouldCaptureIncludeFirst(request, patterns) ==
    IF request.resource_type \in
        {"document", "stylesheet", "image", "font", "media", "manifest"}
    THEN FALSE
    ELSE IF patterns # {}
    THEN \E pattern \in patterns : IncludePatternMatches(pattern, request)
    ELSE IF ExcludePatternMatches(request) THEN FALSE
    ELSE IF HasApiIndicator(request.parts) THEN TRUE
    ELSE request.resource_type \in {"xhr", "fetch"}

\* the body of APIInterceptor._should_capture, for the compiled include
\* patterns of the interceptor (self._include_patterns)
ShouldCapture(request, patterns) ==
    IF request.resource_type \in
        {"document", "stylesheet", "image", "font", "media", "manifest"}
    THEN FALSE
    ELSE IF ExcludePatternMatches(request) THEN FALSE
    ELSE IF patterns # {}
    THEN \E pattern \in patterns : IncludePatternMatches(pattern, request)
    ELSE IF HasApiIndicator(request.parts) THEN TRUE
    ELSE request.resource_type \in {"xhr", "fetch"}

\* APIInterceptor._should_capture, under the default configuration
_should_capture(request) == ShouldCapture(request, include_patterns)

uuid_placeholder == <<"{", "u", "u", "i", "d", "}">>
objectid_placeholder == <<"{", "o", "b", "j", "e", "c", "t", "i", "d", "}">>

\* [0-9a-f]{8}-[0-9a-f]{4}-[0-9a-f]{4}-[0-9a-f]{4}-[0-9a-f]{12} and
\* [0-9a-f]{24}, both with re.I, after the numeric ids were replaced
SignaturePart(part) ==
    IF MatchesDigits(part) THEN id_placeholder
    ELSE IF MatchesUuid(part) THEN uuid_placeholder
    ELSE IF MatchesObjectId(part) THEN objectid_placeholder
    ELSE part

\* the three re.sub of _get_api_signature: a part is replaced when a "/"
\* precedes it and a "/" or the end of the path follows it
SignaturePath(parts) ==
    [i \in 1..Len(parts) |-> IF i >= 2 THEN SignaturePart(parts[i]) ELSE parts[i]]

\* parse_qs(query).keys(): the keys that have a value that is not blank
QueryKeys(query) == {query[i][1] : i \in {j \in 1..Len(query) : query[j][2] # <<>>}}

\* sorted() of a set of keys
RECURSIVE SortedKeys(_)
SortedKeys(keys) ==
    IF keys = {} THEN <<>>
    ELSE LET least == CHOOSE k \in keys : \A other \in keys : k <= other
         IN <<least>> \o SortedKeys(keys \ {least})

\* APIInterceptor._get_api_signature
_get_api_signature(request) ==
    <<request.method, request.netloc, SignaturePath(request.parts),
      SortedKeys(QueryKeys(request.query))>>

\* no pattern is ever taken for a duplicate
NeverDuplicate(signature, seen) == FALSE

\* APIInterceptor._is_duplicate_api: the test on the seen patterns
IsDuplicateApi(signature, seen) == signature \in seen

seg_api == <<"a", "p", "i">>

\* what the page may issue; query key 1 is "page"
BrowserRequests ==
    { BrowserRequest("GET", "site", << <<>>, seg_api, seg_users, seg_42 >>, <<>>, "xhr", ""),
      BrowserRequest("GET", "site", << <<>>, seg_api, seg_users, <<"7">> >>, <<>>, "xhr", ""),
      BrowserRequest("GET", "site", << <<>>, seg_api, seg_users, seg_uuid >>, <<>>, "fetch", ""),
      BrowserRequest("GET", "site", << <<>>, seg_api, seg_users, seg_42 >>, << <<1, <<"2">>>> >>, "xhr", ""),
      BrowserRequest("POST", "site", << <<>>, seg_api, seg_users, seg_42 >>, <<>>, "xhr", "{}"),
      BrowserRequest("GET", "api.site", << <<>>, seg_api, seg_users, seg_42 >>, <<>>, "xhr", ""),
      BrowserRequest("GET", "site", << <<>>, seg_users >>, <<>>, "document", ""),
      BrowserRequest("TRACE", "site", << <<>>, seg_api, seg_users, seg_42 >>, <<>>, "xhr", "") }

MaxRequests == 2

\* the pages the scheduler is on while the interceptor listens, in order
PageOrder == <<no_url, start_url, Url("https", "site", Path("/b", "", TRUE), <<>>, "")>>

CapturedRequest(request) ==
    Request(request.method, request.netloc, request.parts, request.query,
            request.post_data)

\* a pop that leaves the entry in the dict
WithoutNothing(table, key) == table

\* dict.pop(key), the dict left
Without(table, key) == [k \in (DOMAIN table) \ {key} |-> table[k]]

\* a key of the pending table for every request, whatever the object
RequestIdWithoutIdentity(request, id) ==
    <<request.method, request.netloc, request.parts, request.query>>

\* request_id = f"{request.method}:{url}:{id(request)}"; the position of the
\* request in the history stands for id(request)
request_id(request, id) ==
    <<request.method, request.netloc, request.parts, request.query, id>>

\* an entry that leaves the page to be filled in later
PendingEntryNoPage(id, request, page) ==
    [id |-> id, request |-> request, source_page |-> no_url]

\* the value stored in the pending table:
\* (captured_request, current_page_url()), the callback called in handle_request
PendingEntry(id, request, page) ==
    [id |-> id, request |-> request, source_page |-> page]

\* a first request that leaves the set of seen patterns as it is
SeenPatternNotAdded(signature, seen) == seen

\* _is_duplicate_api on a new pattern: self._seen_api_patterns.add(signature),
\* in handle_request, before the pending table is written
AddSeenPattern(signature, seen) == seen \cup {signature}

\* handle_request, for a new request object
OnRequest ==
    /\ Len(requests) < MaxRequests
    /\ \E request \in BrowserRequests :
        LET id == Len(requests) + 1
            key == request_id(request, id)
            signature == _get_api_signature(request)
        IN /\ requests' = Append(requests, request)
           /\ IF ~_should_capture(request)
              THEN UNCHANGED <<pending_requests, seen_api_patterns, duplicate_count,
                               recorded>>
              ELSE IF request.method \notin HttpMethod
              THEN UNCHANGED <<pending_requests, seen_api_patterns, duplicate_count,
                               recorded>>
              ELSE IF IsDuplicateApi(signature, seen_api_patterns)
              THEN /\ duplicate_count' = duplicate_count + 1
                   /\ UNCHANGED <<pending_requests, seen_api_patterns, recorded>>
              ELSE /\ seen_api_patterns' = AddSeenPattern(signature, seen_api_patterns)
                   /\ pending_requests' =
                        [k \in (DOMAIN pending_requests) \cup {key} |->
                            IF k = key
                            THEN PendingEntry(id, CapturedRequest(request),
                                              current_page_url)
                            ELSE pending_requests[k]]
                   /\ recorded' = recorded \cup {id}
                   /\ UNCHANGED duplicate_count
    /\ UNCHANGED <<responded, captured_endpoints, reading, captured_from, returned,
                   clear_calls>>
    /\ UNCHANGED <<cfgVars, crawlVars, authVars, fpVars, jsonVars, outerVars>>

\* handle_response up to its first await: the filter, the lookup in the
\* pending table, the pop
OnResponse ==
    /\ \E id \in (1..Len(requests)) \ responded :
        LET key == request_id(requests[id], id)
        IN /\ responded' = responded \cup {id}
           /\ IF ~_should_capture(requests[id])
              THEN UNCHANGED <<pending_requests, reading>>
              ELSE IF key \notin DOMAIN pending_requests
              THEN UNCHANGED <<pending_requests, reading>>
              ELSE /\ pending_requests' = Without(pending_requests, key)
                   /\ reading' = reading \cup {pending_requests[key]}
    /\ UNCHANGED <<requests, captured_endpoints, seen_api_patterns, duplicate_count, clear_calls,
                   recorded, captured_from, returned>>
    /\ UNCHANGED <<cfgVars, crawlVars, authVars, fpVars, jsonVars, outerVars>>

\* a handler that gives the response up when its body cannot be read
ReadBodyOrGiveUp ==
    /\ \E entry \in reading, body \in {"text", "None"} :
        /\ reading' = reading \ {entry}
        /\ IF body = "None"
           THEN UNCHANGED <<captured_endpoints, captured_from>>
           ELSE /\ captured_endpoints' = Append(captured_endpoints,
                        [request |-> entry.request,
                         response |-> [status_code |-> 200, body |-> body],
                         source_page |-> entry.source_page])
                /\ captured_from' = Append(captured_from, entry.id)
    /\ returned' = IF returned.taken /\ returned.same_object
                   THEN [returned EXCEPT !.items = captured_endpoints']
                   ELSE returned
    /\ UNCHANGED <<requests, responded, pending_requests, seen_api_patterns,
                   duplicate_count, clear_calls, recorded>>
    /\ UNCHANGED <<cfgVars, crawlVars, authVars, fpVars, jsonVars, outerVars>>

\* handle_response from response.text() on: the body, or none when it
\* cannot be read, and the endpoint appended.  A list handed out that is
\* the interceptor's own list object shows the append.
ReadBody ==
    /\ \E entry \in reading, body \in {"text", "None"} :
        /\ reading' = reading \ {entry}
        /\ captured_endpoints' = Append(captured_endpoints,
                [request |-> entry.request,
                 response |-> [status_code |-> 200, body |-> body],
                 source_page |-> entry.source_page])
        /\ captured_from' = Append(captured_from, entry.id)
    /\ returned' = IF returned.taken /\ returned.same_object
                   THEN [returned EXCEPT !.items = captured_endpoints']
                   ELSE returned
    /\ UNCHANGED <<requests, responded, pending_requests, seen_api_patterns,
                   duplicate_count, clear_calls, recorded>>
    /\ UNCHANGED <<cfgVars, crawlVars, authVars, fpVars, jsonVars, outerVars>>

\* a getter that hands out the list object itself
ReturnOwnList(list) == [items |-> list, same_object |-> TRUE]

\* APIInterceptor.get_captured_endpoints: list.copy(), a new list object
\* with the same items
get_captured_endpoints(list) == [items |-> list, same_object |-> FALSE]

no_list == [taken |-> FALSE, mutated |-> FALSE, items |-> <<>>, same_object |-> FALSE]

\* a caller takes the list: Crawler.crawl does, once
GetCaptured ==
    /\ ~returned.taken
    /\ returned' = [taken |-> TRUE, mutated |-> FALSE,
                    items |-> get_captured_endpoints(captured_endpoints).items,
                    same_object |-> get_captured_endpoints(captured_endpoints).same_object]
    /\ UNCHANGED <<requests, responded, captured_endpoints, pending_requests,
                   seen_api_patterns, duplicate_count, clear_calls, reading, recorded,
                   captured_from>>
    /\ UNCHANGED <<cfgVars, crawlVars, authVars, fpVars, jsonVars, outerVars>>

\* the caller changes the list it holds: it drops the first item, or clears
\* the list.  The change shows in the interceptor's list only when the two
\* are one object.
MutateReturned ==
    /\ returned.taken
    /\ ~returned.mutated
    /\ returned.items # <<>>
    /\ \E items \in {<<>>, Tail(returned.items)} :
        /\ returned' = [returned EXCEPT !.items = items, !.mutated = TRUE]
        /\ IF returned.same_object
           THEN /\ captured_endpoints' = items
                /\ captured_from' = SubSeq(captured_from,
                        Len(captured_from) - Len(items) + 1, Len(captured_from))
           ELSE UNCHANGED <<captured_endpoints, captured_from>>
    /\ UNCHANGED <<requests, responded, pending_requests, seen_api_patterns,
                   duplicate_count, clear_calls, reading, recorded>>
    /\ UNCHANGED <<cfgVars, crawlVars, authVars, fpVars, jsonVars, outerVars>>

\* the scheduler goes on to its next page: _crawl_page sets current_page_url
PageChange ==
    /\ \E i \in 1..(Len(PageOrder) - 1) :
        /\ current_page_url = PageOrder[i]
        /\ current_page_url' = PageOrder[i + 1]
    /\ UNCHANGED <<pc, visited_urls, urls_to_visit, cur_depth, errors,
                   navigated, skipped, result>>
    /\ UNCHANGED <<cfgVars, authVars, fpVars, jsonVars, icptVars, outerVars>>

\* a clear() that forgets the patterns seen as well
ClearPatternsToo(list, table, seen) ==
    [captured_endpoints |-> <<>>, pending_requests |-> <<>>,
     seen_api_patterns |-> {}]

\* APIInterceptor.clear: the capture list and the pending table emptied;
\* the body has no statement on _seen_api_patterns
clear(list, table, seen) ==
    [captured_endpoints |-> <<>>, pending_requests |-> <<>>,
     seen_api_patterns |-> seen]

MaxClears == 1

\* a holder of the interceptor calls clear().  A handler suspended at
\* response.text() holds its entry in a local and goes on after the call.
Clear ==
    /\ Len(clear_calls) < MaxClears
    /\ LET after == clear(captured_endpoints, pending_requests, seen_api_patterns)
       IN /\ captured_endpoints' = after.captured_endpoints
          /\ pending_requests' = after.pending_requests
          /\ seen_api_patterns' = after.seen_api_patterns
    /\ captured_from' = <<>>
    /\ clear_calls' = Append(clear_calls, Len(requests))
    /\ UNCHANGED <<requests, responded, duplicate_count, reading, recorded,
                   returned>>
    /\ UNCHANGED <<cfgVars, crawlVars, authVars, fpVars, jsonVars, outerVars>>

IcptIdle ==
    /\ requests = <<>>
    /\ responded = {}
    /\ captured_endpoints = <<>>
    /\ pending_requests = <<>>
    /\ seen_api_patterns = {}
    /\ duplicate_count = 0
    /\ reading = {}
    /\ recorded = {}
    /\ captured_from = <<>>
    /\ returned = no_list
    /\ clear_calls = <<>>

(***************************************************************************)
(* Schema inference: EndpointAnalyzer._infer_type, _infer_format and       *)
(* _infer_object_schema.  None is the JSON null.                           *)
(***************************************************************************)
JNull == [t |-> "null", v |-> <<>>]
JBool(b) == [t |-> "bool", v |-> b]
\* a float, known by its text
JFloat(text) == [t |-> "float", v |-> text]

\* str.isdigit(), on the characters of the model
isdigit(text) == text # <<>> /\ \A i \in 1..Len(text) : text[i] \in Digits

\* digits with at most one "." among them, and one digit at least
IsDecimal(text) ==
    /\ \E i \in 1..Len(text) : text[i] \in Digits
    /\ \A i \in 1..Len(text) : text[i] \in Digits \cup {"."}
    /\ Cardinality({i \in 1..Len(text) : text[i] = "."}) <= 1

Unsigned(text) ==
    IF text # <<>> /\ text[1] \in {"+", "-"} THEN Tail(text) ELSE text

\* float(value) returns: a sign, then inf, infinity or nan in any letter
\* case, or a decimal with an optional exponent.  Surrounding blanks and
\* "_" between digits, which float() also takes, are not in the model.
ParsesAsFloat(text) ==
    LET body == Unsigned(text)
    IN \/ lower(body) \in {<<"i", "n", "f">>, <<"n", "a", "n">>,
                           <<"i", "n", "f", "i", "n", "i", "t", "y">>}
       \/ IsDecimal(body)
       \/ \E k \in 2..(Len(body) - 1) :
            /\ body[k] \in {"e", "E"}
            /\ IsDecimal(SubSeq(body, 1, k - 1))
            /\ isdigit(Unsigned(SubSeq(body, k + 1, Len(body))))

\* EndpointAnalyzer._infer_type
_infer_type(value) ==
    IF value.t = "null" THEN "null"
    ELSE IF value.t = "bool" THEN "boolean"
    ELSE IF value.t = "int" THEN "integer"
    ELSE IF value.t = "float" THEN "number"
    ELSE IF value.t = "list" THEN "array"
    ELSE IF value.t = "dict" THEN "object"
    ELSE IF isdigit(value.v) THEN "integer"
    ELSE IF ParsesAsFloat(value.v) THEN "number"
    ELSE IF lower(value.v) \in {<<"t", "r", "u", "e">>, <<"f", "a", "l", "s", "e">>}
    THEN "boolean"
    ELSE "string"

timestamp_names ==
    { <<"d", "a", "t", "e">>, <<"t", "i", "m", "e">>,
      <<"t", "i", "m", "e", "s", "t", "a", "m", "p">>,
      <<"c", "r", "e", "a", "t", "e", "d">>, <<"u", "p", "d", "a", "t", "e", "d">>,
      <<"m", "o", "d", "i", "f", "i", "e", "d">> }

uri_names ==
    { <<"u", "r", "l">>, <<"l", "i", "n", "k">>, <<"h", "r", "e", "f">>, <<"u", "r", "i">> }

seg_email == <<"e", "m", "a", "i", "l">>

\* the number of decimal digits of n >= 0
RECURSIVE DecimalDigits(_)
DecimalDigits(n) == IF n < 10 THEN 1 ELSE 1 + DecimalDigits(n \div 10)

\* EndpointAnalyzer._infer_format; "" is None.  The two ranges are the
\* positive ints of 13 and of 10 decimal digits.
_infer_format(name, value) ==
    LET name_lower == lower(name)
    IN IF /\ \E x \in timestamp_names : IsSubstring(x, name_lower)
          /\ value.t = "int"
          /\ value.v > 0 /\ DecimalDigits(value.v) = 13
       THEN "timestamp-ms"
       ELSE IF /\ \E x \in timestamp_names : IsSubstring(x, name_lower)
               /\ value.t = "int"
               /\ value.v > 0 /\ DecimalDigits(value.v) = 10
       THEN "timestamp"
       ELSE IF IsSubstring(seg_email, name_lower) THEN "email"
       ELSE IF \E x \in uri_names : IsSubstring(x, name_lower) THEN "uri"
       ELSE IF value.t = "str" /\ MatchesUuid(value.v) THEN "uuid"
       ELSE ""

\* the description _infer_object_schema derives from the format: the only
\* use it makes of it
FormatDescription(value_format) ==
    IF value_format = "timestamp-ms" THEN "Unix timestamp in milliseconds"
    ELSE IF value_format = "timestamp" THEN "Unix timestamp in seconds"
    ELSE IF value_format = "uuid" THEN "UUID identifier"
    ELSE ""

\* models.SchemaProperty: items is <<>> for None, or holds one property
SchemaProperty(name, schema_type, description, example, nullable, items, properties) ==
    [name |-> name, schema_type |-> schema_type, description |-> description,
     example |-> example, nullable |-> nullable, items |-> items,
     properties |-> properties]

\* value if not isinstance(value, (dict, list)) else None
ExampleOf(value) == IF value.t \in {"dict", "list"} THEN JNull ELSE value

items_name == <<"i", "t", "e", "m", "s">>

RECURSIVE InferObjectSchema(_)

\* the item schema taken from the last element of the array
ArrayItemsOfLast(value) ==
    IF value.v = <<>> THEN <<>>
    ELSE LET last_item == value.v[Len(value.v)]
             item_type == _infer_type(last_item)
         IN << SchemaProperty(items_name, item_type, "", ExampleOf(last_item), FALSE, <<>>,
                  IF item_type = "object" THEN InferObjectSchema(last_item) ELSE <<>>) >>

\* "Handle arrays": prop.items of an array value
ArrayItems(value) ==
    IF value.v = <<>> THEN <<>>
    ELSE LET first_item == value.v[1]
             item_type == _infer_type(first_item)
         IN << SchemaProperty(items_name, item_type, "", ExampleOf(first_item), FALSE, <<>>,
                  IF item_type = "object" THEN InferObjectSchema(first_item) ELSE <<>>) >>

\* EndpointAnalyzer._infer_object_schema: the properties by key
InferObjectSchema(o) ==
    [key \in DOMAIN o.v |->
        LET value == o.v[key]
            schema_type == _infer_type(value)
            value_format == _infer_format(key, value)
        IN SchemaProperty(key, schema_type, FormatDescription(value_format),
               ExampleOf(value), value.t = "null",
               IF schema_type = "array" THEN ArrayItems(value) ELSE <<>>,
               IF schema_type = "object" THEN InferObjectSchema(value) ELSE <<>>)]

_infer_object_schema(o) == InferObjectSchema(o)

key_tags == <<"t", "a", "g", "s">>
key_id == <<"i", "d">>

MaxArray == 2

SchemaScalars ==
    {JInt(1), JStr(<<"x">>), JStr(<<"4", "2">>), JBool(TRUE), JFloat("1.5"), JNull}

\* what an array may hold: scalars, an object, an array
SchemaItems ==
    SchemaScalars \cup {JDict([k \in {key_id} |-> JInt(1)]), JList(<<>>)}

\* the values of the keys: scalars, and arrays of up to MaxArray items
SchemaValues ==
    SchemaScalars \cup {JList(items) : items \in SeqsUpTo(SchemaItems, MaxArray)}

\* the objects with the keys "tags" and "items", or one of them
SchemaObjects ==
    {JDict(f) : f \in UNION {[K -> SchemaValues] :
                                K \in (SUBSET {key_tags, items_name}) \ {{}}}}

SchemaIdle ==
    /\ schema_obj = JNull
    /\ schema_done = FALSE
    /\ schema_props = <<>>

InferSchema ==
    /\ ~schema_done
    /\ schema_done' = TRUE
    /\ schema_props' = _infer_object_schema(schema_obj)
    /\ UNCHANGED <<cfgVars, crawlVars, authVars, fpVars, jsonVars, icptVars,
                   analyzerVars, webVars, filterVars, copyVars,
                   schema_obj>>

(***************************************************************************)
(* The analyzer: EndpointAnalyzer.analyze and what it calls.  A body is    *)
(* present or not (None and "" are both falsy); a present body is a text   *)
(* that json.loads parses to the value json, or a text it rejects.         *)
(***************************************************************************)
\* the body as the str it is, when its characters do not matter
raw_text == <<"r", "a", "w">>

no_body == [present |-> FALSE, parses |-> FALSE, json |-> JNull, text |-> <<>>]
JsonText(node) == [present |-> TRUE, parses |-> TRUE, json |-> node, text |-> raw_text]
PlainText == [present |-> TRUE, parses |-> FALSE, json |-> JNull, text |-> raw_text]
\* a body that is no JSON text, with its characters
TextBody(text) == [present |-> TRUE, parses |-> FALSE, json |-> JNull, text |-> text]

\* a captured request with the content type its headers give
RequestOfType(method, netloc, parts, query, body, content_type) ==
    [method |-> method, netloc |-> netloc, parts |-> parts, query |-> query,
     body |-> body, content_type |-> content_type]

\* models.CapturedResponse: content_type is the computed field
Response(status_code, content_type, body) ==
    [status_code |-> status_code, content_type |-> content_type, body |-> body]

\* models.CapturedEndpoint
CapturedEndpoint(request, response, source_page) ==
    [request |-> request, response |-> response, source_page |-> source_page]

seg_resources == <<"r", "e", "s", "o", "u", "r", "c", "e", "s">>
seg_static == <<"s", "t", "a", "t", "i", "c">>
seg_assets == <<"a", "s", "s", "e", "t", "s">>
seg_next == <<"_", "n", "e", "x", "t">>

config_file_extensions ==
    { <<".", "p", "r", "o", "p", "e", "r", "t", "i", "e", "s">>, <<".", "j", "s", "o", "n">>,
      <<".", "x", "m", "l">>, <<".", "y", "a", "m", "l">>, <<".", "y", "m", "l">> }

non_api_extensions ==
    excluded_extensions \cup {<<".", "m", "a", "p">>}

\* re.search(pattern, path, re.I) for some pattern of NON_API_PATTERNS
MatchesNonApiPattern(parts) ==
    LET last == lower(parts[Len(parts)])
    IN \/ Len(parts) >= 3 /\ lower(parts[2]) \in {seg_resources, seg_static, seg_assets, seg_next}
       \/ Len(parts) >= 2 /\ StartsWith(parts[2], <<"_", "_">>)
       \/ \E ext \in config_file_extensions \cup non_api_extensions : EndsWith(last, ext)

\* EndpointAnalyzer._is_api_endpoint
_is_api_endpoint(endpoint) ==
    LET parts == endpoint.request.parts
    IN IF \E i \in 2..(Len(parts) - 1) : lower(parts[i]) = seg_api THEN TRUE
       ELSE IF MatchesNonApiPattern(parts) THEN FALSE
       ELSE IF endpoint.response.content_type = "application/json" THEN TRUE
       ELSE IF endpoint.response.content_type = "text/html" THEN FALSE
       ELSE TRUE

\* a key for every endpoint, repeated or not
GroupKeysWithRepeats(endpoints) ==
    [i \in 1..Len(endpoints) |-> endpoint_id(endpoints[i].request)]

\* the keys of groups, in the order in which the dict got them
RECURSIVE GroupKeys(_)
GroupKeys(endpoints) ==
    IF endpoints = <<>> THEN <<>>
    ELSE LET before == GroupKeys(SubSeq(endpoints, 1, Len(endpoints) - 1))
             key == endpoint_id(endpoints[Len(endpoints)].request)
         IN IF \E i \in 1..Len(before) : before[i] = key THEN before
            ELSE Append(before, key)

\* groups[endpoint_id]: the endpoints of one key, in input order
GroupMembers(endpoints, key) ==
    SelectSeq(endpoints, LAMBDA ep : endpoint_id(ep.request) = key)

\* EndpointAnalyzer._parse_body
_parse_body(body, content_type) ==
    IF content_type = "application/json" /\ body.parses THEN body.json
    ELSE JStr(body.text)

\* models.Parameter
Parameter(name, location, required, schema_type, example, examples) ==
    [name |-> name, location |-> location, required |-> required,
     schema_type |-> schema_type, example |-> example, examples |-> examples]

\* list(set(...))[:5], as the set of the values kept; which five of more
\* than five are kept is left open by the set order
FirstFive(values) ==
    IF Cardinality(values) <= 5 THEN values
    ELSE CHOOSE kept \in SUBSET values : Cardinality(kept) = 5

\* the path parameter of _analyze_parameters: <<>> or one Parameter "id"
PathParameters(endpoints) ==
    LET original_parts == endpoints[1].request.parts
        normalized_parts == _normalize_path(original_parts)
        places == {i \in 1..Len(original_parts) :
                      normalized_parts[i] = id_placeholder /\ original_parts[i] # id_placeholder}
    IN IF places = {} THEN <<>>
       ELSE LET i == CHOOSE p \in places : \A q \in places : p <= q
                orig == original_parts[i]
            IN << Parameter(key_id, "path", TRUE, _infer_type(JStr(orig)), JStr(orig),
                    FirstFive({JStr(endpoints[n].request.parts[i]) :
                                  n \in {m \in 1..Len(endpoints) :
                                            Len(endpoints[m].request.parts) >= i}})) >>

\* the names of the query parameters of the endpoints
QueryNames(endpoints) ==
    UNION {QueryKeys(endpoints[n].request.query) : n \in 1..Len(endpoints)}

\* query_params[name]: the values of one name over all the endpoints
QueryValues(endpoints, name) ==
    UNION {{endpoints[n].request.query[j][2] :
                j \in {k \in 1..Len(endpoints[n].request.query) :
                          /\ endpoints[n].request.query[k][1] = name
                          /\ endpoints[n].request.query[k][2] # <<>>}} :
           n \in 1..Len(endpoints)}

\* list(set(values))[0]: the value of the set that its iteration yields
\* first; hash_order lists the values in the order of the iteration
FirstOf(values, hash_order) ==
    hash_order[CHOOSE i \in 1..Len(hash_order) :
                  /\ hash_order[i] \in values
                  /\ \A j \in 1..(i - 1) : hash_order[j] \notin values]

\* the text of the query keys of the model: 1 is "page", 2 is "token"
query_key_names == << <<"p", "a", "g", "e">>, <<"t", "o", "k", "e", "n">> >>

\* the query parameters of _analyze_parameters, by name
QueryParameters(endpoints, hash_order) ==
    [name \in QueryNames(endpoints) |->
        LET first_value == FirstOf(QueryValues(endpoints, name), hash_order)
        IN Parameter(query_key_names[name], "query", FALSE, _infer_type(JStr(first_value)),
                     JStr(first_value),
                     FirstFive({JStr(value) : value \in QueryValues(endpoints, name)}))]

\* EndpointAnalyzer._analyze_parameters
_analyze_parameters(endpoints, hash_order) ==
    [path |-> PathParameters(endpoints), query |-> QueryParameters(endpoints, hash_order)]

\* models.RequestBody and models.ResponseBody; the example is JNull and
\* the examples are <<>> when none was set
BodySchema(status_code, content_type, schema_properties, example, examples) ==
    [status_code |-> status_code, content_type |-> content_type,
     schema_properties |-> schema_properties, example |-> example,
     examples |-> examples]

\* bodies[:3], status_endpoints[:3]
FirstThree(s) == SubSeq(s, 1, IF Len(s) < 3 THEN Len(s) ELSE 3)

\* EndpointAnalyzer._analyze_request_body: <<>> for None, or one RequestBody
_analyze_request_body(endpoints) ==
    IF endpoints[1].request.method \notin {"POST", "PUT", "PATCH"} THEN <<>>
    ELSE LET bodies == SelectSeq(endpoints, LAMBDA ep : ep.request.body.present)
         IN IF bodies = <<>> THEN <<>>
            ELSE LET content_type == bodies[1].request.content_type
                     parsed == _parse_body(bodies[1].request.body, content_type)
                 IN << BodySchema(0, content_type,
                         IF content_type = "application/json" /\ parsed.t = "dict"
                         THEN _infer_object_schema(parsed) ELSE <<>>,
                         parsed,
                         [n \in 1..Len(FirstThree(bodies)) |->
                            _parse_body(bodies[n].request.body,
                                        bodies[n].request.content_type)]) >>

\* the body of the loop of _analyze_responses, for one status code
ResponseOfStatus(status_endpoints) ==
    LET first == status_endpoints[1].response
        parsed == _parse_body(first.body, first.content_type)
        with_body == SelectSeq(FirstThree(status_endpoints),
                               LAMBDA ep : ep.response.body.present)
    IN IF ~first.body.present
       THEN BodySchema(first.status_code, first.content_type, <<>>, JNull, <<>>)
       ELSE BodySchema(first.status_code, first.content_type,
                IF first.content_type = "application/json" /\ parsed.t = "dict"
                THEN _infer_object_schema(parsed)
                ELSE IF /\ first.content_type = "application/json"
                        /\ parsed.t = "list" /\ parsed.v # <<>>
                        /\ parsed.v[1].t = "dict"
                THEN _infer_object_schema(parsed.v[1])
                ELSE <<>>,
                parsed,
                [n \in 1..Len(with_body) |->
                    _parse_body(with_body[n].response.body,
                                with_body[n].response.content_type)])

\* EndpointAnalyzer._analyze_responses: the ResponseBody of every status
_analyze_responses(endpoints) ==
    [status_code \in {endpoints[n].response.status_code : n \in 1..Len(endpoints)} |->
        ResponseOfStatus(SelectSeq(endpoints,
            LAMBDA ep : ep.response.status_code = status_code))]

\* models.EndpointGroup.  The tags and the summary, two texts derived from
\* the path pattern, are not in the model.
EndpointGroup(method, path_pattern, base_url, captured, parameters, request_body, responses) ==
    [method |-> method, path_pattern |-> path_pattern, base_url |-> base_url,
     captured |-> captured, parameters |-> parameters,
     request_body |-> request_body, responses |-> responses]

\* EndpointAnalyzer._analyze_group, for a group that is not empty
_analyze_group(endpoints, hash_order) ==
    LET first == endpoints[1]
    IN EndpointGroup(first.request.method, _normalize_path(first.request.parts),
                     <<"https", first.request.netloc>>, endpoints,
                     _analyze_parameters(endpoints, hash_order),
                     _analyze_request_body(endpoints),
                     _analyze_responses(endpoints))

\* EndpointAnalyzer._redact_schema_property: the property with its example,
\* its nested properties and its items redacted; the items are visited
\* under the name of the property
RECURSIVE RedactSchemaProperty(_, _)
RedactSchemaProperty(name, prop) ==
    [prop EXCEPT
        !.example = IF _is_sensitive_field(name) THEN REDACTED ELSE @,
        !.properties = [nested_name \in DOMAIN @ |->
                            RedactSchemaProperty(nested_name, @[nested_name])],
        !.items = [i \in 1..Len(@) |-> RedactSchemaProperty(name, @[i])]]

\* "if x.example": None, 0, False, "", [] and {} are all falsy
Truthy(value) ==
    CASE value.t = "null" -> FALSE
      [] value.t = "bool" -> value.v
      [] value.t = "int" -> value.v # 0
      [] value.t = "float" -> value.v \notin {"0.0", "-0.0"}
      [] value.t \in {"str", "list"} -> value.v # <<>>
      [] value.t = "dict" -> DOMAIN value.v # {}

\* the redaction of one RequestBody or ResponseBody
RedactBody(body) ==
    [body EXCEPT
        !.example = IF Truthy(@) THEN _redact_object(@) ELSE @,
        !.examples = [n \in 1..Len(@) |-> _redact_object(@[n])],
        !.schema_properties = [prop_name \in DOMAIN @ |->
                                  RedactSchemaProperty(prop_name, @[prop_name])]]

\* the redaction of one Parameter
RedactParameter(param) ==
    IF _is_sensitive_field(param.name)
    THEN [param EXCEPT !.example = REDACTED, !.examples = {REDACTED}]
    ELSE param

\* EndpointAnalyzer._redact_sensitive_data
_redact_sensitive_data(group) ==
    [group EXCEPT
        !.request_body = [n \in 1..Len(@) |-> RedactBody(@[n])],
        !.responses = [status_code \in DOMAIN @ |-> RedactBody(@[status_code])],
        !.parameters = [path |-> [n \in 1..Len(@.path) |->
                                    RedactParameter(@.path[n])],
                        query |-> [name \in DOMAIN @.query |->
                                    RedactParameter(@.query[name])]]]

\* the characters of the paths of the model in the order of their code
\* points: "-" 45, "." 46, "/" 47, the digits, the capitals, "_" 95, the
\* small letters, "{" 123, "}" 125
code_point_order ==
    <<"-", ".", "/", "0", "1", "2", "3", "4", "5", "6", "7", "8", "9">>
    \o UpperLetters \o <<"_">> \o LowerLetters \o <<"{", "}">>

ord(c) == CHOOSE i \in 1..Len(code_point_order) : code_point_order[i] = c

\* "/".join(parts)
RECURSIVE Join(_)
Join(parts) ==
    IF parts = <<>> THEN <<>>
    ELSE IF Len(parts) = 1 THEN parts[1]
    ELSE parts[1] \o <<"/">> \o Join(Tail(parts))

\* a < b for two str
StrLess(a, b) ==
    \E k \in 1..(Len(b)) :
        /\ \A i \in 1..(k - 1) : i <= Len(a) /\ a[i] = b[i]
        /\ \/ k = Len(a) + 1
           \/ k <= Len(a) /\ ord(a[k]) < ord(b[k])

\* the values of HttpMethod in the order of their text
method_order == <<"DELETE", "GET", "HEAD", "OPTIONS", "PATCH", "POST", "PUT">>

MethodRank(method) == CHOOSE i \in 1..Len(method_order) : method_order[i] = method

\* a sort key of the path pattern alone
SortKeyLessByPath(g, h) == StrLess(Join(g.path_pattern), Join(h.path_pattern))

\* key(g) < key(h) for the sort key (g.path_pattern, g.method.value)
SortKeyLess(g, h) ==
    LET pg == Join(g.path_pattern)
        ph == Join(h.path_pattern)
    IN \/ StrLess(pg, ph)
       \/ pg = ph /\ MethodRank(g.method) < MethodRank(h.method)

\* the groups in the order in which the dict yields them
UnsortedGroups(groups) == groups

\* list.sort(key=...): stable, so a group goes behind the groups whose key
\* is not greater
RECURSIVE SortGroups(_)
SortGroups(groups) ==
    IF groups = <<>> THEN <<>>
    ELSE LET before == SortGroups(SubSeq(groups, 1, Len(groups) - 1))
             g == groups[Len(groups)]
             n == Cardinality({i \in 1..Len(before) : ~SortKeyLess(g, before[i])})
         IN SubSeq(before, 1, n) \o <<g>> \o SubSeq(before, n + 1, Len(before))

\* EndpointAnalyzer.analyze, with filter_non_api and redact_sensitive as
\* the constructor sets them; hash_order is the iteration order of the sets
\* of query values
analyze(endpoints, filtering, redacting, hash_order) ==
    LET retained == IF filtering THEN SelectSeq(endpoints, _is_api_endpoint)
                    ELSE endpoints
        keys == GroupKeys(retained)
        analyzed_groups ==
            [n \in 1..Len(keys) |->
                LET group == _analyze_group(GroupMembers(retained, keys[n]), hash_order)
                IN IF redacting THEN _redact_sensitive_data(group) ELSE group]
    IN SortGroups(analyzed_groups)

key_email == <<"e", "m", "a", "i", "l">>

\* {"id": 1, "name": "bob", "email": "b@x"}
user_object ==
    JDict([k \in {key_id, key_name, key_email} |->
            IF k = key_id THEN JInt(1)
            ELSE IF k = key_name THEN JStr(<<"b", "o", "b">>)
            ELSE JStr(<<"b", "@", "x">>)])

users_page == Url("https", "site", Path("/users", "", FALSE), <<>>, "")

\* GET /api/users -> 200, a JSON array of user objects
ep_users_list ==
    CapturedEndpoint(
        RequestOfType("GET", "site", << <<>>, seg_api, seg_users >>, <<>>, no_body, "unknown"),
        Response(200, "application/json", JsonText(JList(<<user_object>>))), users_page)

\* GET /api/users/1 -> 200, a JSON object
ep_user_1 ==
    CapturedEndpoint(
        RequestOfType("GET", "site", << <<>>, seg_api, seg_users, <<"1">> >>, <<>>, no_body, "unknown"),
        Response(200, "application/json", JsonText(user_object)), users_page)

\* the captured endpoints analyze() may be given
AnalyzerEndpoints ==
    { ep_users_list, ep_user_1,
      CapturedEndpoint(
        RequestOfType("GET", "site", << <<>>, seg_api, seg_users, seg_42 >>,
                      << <<1, <<"2">>>> >>, no_body, "unknown"),
        Response(404, "application/json", no_body), users_page),
      CapturedEndpoint(
        RequestOfType("GET", "site", << <<>>, seg_api, seg_users >>,
                      << <<1, <<"x">>>>, <<2, <<"s">>>> >>, no_body, "unknown"),
        Response(200, "application/json", JsonText(JList(<<>>))), start_url),
      CapturedEndpoint(
        RequestOfType("POST", "site", << <<>>, seg_api, seg_users, <<"1">> >>, <<>>,
                      JsonText(JDict([k \in {key_password} |-> JStr(<<"x">>)])),
                      "application/json"),
        Response(200, "unknown", PlainText), users_page),
      CapturedEndpoint(
        RequestOfType("GET", "site", << <<>>, seg_assets, seg_users >>, <<>>, no_body, "unknown"),
        Response(200, "application/json", JsonText(user_object)), start_url),
      CapturedEndpoint(
        RequestOfType("GET", "site", << <<>>, seg_users >>, <<>>, no_body, "unknown"),
        Response(200, "text/html", PlainText), start_url) }

MaxCaptured == 3

\* the distinct values of the query parameters of the endpoints
AllQueryValues(endpoints) ==
    UNION {QueryValues(endpoints, name) : name \in QueryNames(endpoints)}

\* the orders in which a set of these values may be iterated
HashOrders(values) ==
    {order \in [1..Cardinality(values) -> values] :
        \A i, j \in 1..Cardinality(values) : i # j => order[i] # order[j]}

AnalyzerIdle ==
    /\ analyzer_input = <<>>
    /\ filter_non_api = TRUE
    /\ redact_sensitive = TRUE
    /\ analyze_done = FALSE
    /\ analyzed = <<>>

\* one call of analyze()
Analyze ==
    /\ ~analyze_done
    /\ analyze_done' = TRUE
    /\ \E hash_order \in HashOrders(AllQueryValues(analyzer_input)) :
        analyzed' = analyze(analyzer_input, filter_non_api, redact_sensitive, hash_order)
    /\ UNCHANGED <<cfgVars, crawlVars, authVars, fpVars, jsonVars, icptVars,
                   schemaVars, webVars, filterVars, copyVars,
                   analyzer_input, filter_non_api,
                   redact_sensitive>>

(***************************************************************************)
(* The web front end: crawl_state, start_crawl, stop_crawl,                *)
(* submit_2fa_code, request_2fa_code and the task of run_crawl.  A task is *)
(* known by its position in tasks; 0 stands for None.                      *)
(***************************************************************************)
MaxCrawls == 2
MaxStops == 2
MaxWebPages == 2

no_task == 0
no_event == [task |-> 0, attempt |-> 0]
no_code == "None"

\* the positions of a task at which it is suspended in an await
Suspended == {"auth", "twofa_wait", "loop", "page_announce", "in_page",
              "error_snapshot", "returning", "cancelled"}

\* task.done()
done(t) == tasks[t].pc = "done"

\* asyncio.create_task(run_crawl(request)): the task exists and has not run
NewTask == [pc |-> "created", cancel_requested |-> FALSE, visited |-> 0,
            frontier |-> MaxWebPages, attempt |-> 0, event |-> no_event]

\* the finally of run_crawl
RunFinally(t) ==
    /\ running' = FALSE
    /\ crawl_task' = no_task
    /\ tasks' = [tasks EXCEPT ![t].pc = "done", ![t].cancel_requested = FALSE]

\* a step of task t that runs on from an await, no cancellation pending
Resumes(t, position) ==
    /\ t \in 1..Len(tasks)
    /\ tasks[t].pc = position
    /\ ~tasks[t].cancel_requested

webRest == <<cfgVars, crawlVars, authVars, fpVars, jsonVars, icptVars,
             schemaVars, analyzerVars, filterVars, copyVars>>

\* start_crawl: refused while the task of crawl_state is not done
StartCrawl ==
    /\ Len(tasks) < MaxCrawls
    /\ ~(crawl_task # no_task /\ ~done(crawl_task))
    /\ running' = TRUE
    /\ waiting_for_2fa' = FALSE
    /\ twofa_code' = no_code
    /\ twofa_event' = no_event
    /\ tasks' = Append(tasks, NewTask)
    /\ crawl_task' = Len(tasks) + 1
    /\ UNCHANGED <<events_set, stops, stop_waiting, stop_signalled, webRest>>

\* stop_crawl up to its await: the flag, the 2FA state, the cancellation
StopCrawl ==
    /\ stops < MaxStops
    /\ stops' = stops + 1
    /\ running' = FALSE
    /\ waiting_for_2fa' = FALSE
    /\ events_set' = IF twofa_event # no_event THEN events_set \cup {twofa_event}
                     ELSE events_set
    /\ twofa_code' = no_code
    /\ twofa_event' = no_event
    /\ stop_signalled' = stop_signalled \cup {t \in 1..Len(tasks) : ~done(t)}
    /\ IF crawl_task # no_task /\ ~done(crawl_task)
       THEN /\ tasks' = [tasks EXCEPT ![crawl_task].cancel_requested = TRUE]
            /\ stop_waiting' = stop_waiting \cup {[stop |-> stops + 1, task |-> crawl_task]}
            /\ UNCHANGED crawl_task
       ELSE /\ crawl_task' = no_task
            /\ UNCHANGED <<tasks, stop_waiting>>
    /\ UNCHANGED webRest

\* stop_crawl after asyncio.wait_for(task, 5.0), which returns when the
\* task is done: crawl_state["crawl_task"] = None
StopResume ==
    /\ \E s \in stop_waiting :
        /\ done(s.task)
        /\ stop_waiting' = stop_waiting \ {s}
        /\ crawl_task' = no_task
    /\ UNCHANGED <<running, waiting_for_2fa, twofa_code, twofa_event, events_set,
                   tasks, stops, stop_signalled, webRest>>

\* the timeout of asyncio.wait_for: the task is cancelled once more and
\* awaited on
StopTimeout ==
    /\ \E s \in stop_waiting :
        /\ ~done(s.task)
        /\ ~tasks[s.task].cancel_requested
        /\ tasks' = [tasks EXCEPT ![s.task].cancel_requested = TRUE]
    /\ UNCHANGED <<running, crawl_task, waiting_for_2fa, twofa_code, twofa_event,
                   events_set, stops, stop_waiting, stop_signalled, webRest>>

\* submit_2fa_code
Submit2fa ==
    /\ waiting_for_2fa
    /\ \E code \in {"", "123456"} :
        /\ twofa_code # code
        /\ twofa_code' = code
    /\ events_set' = IF twofa_event # no_event THEN events_set \cup {twofa_event}
                     ELSE events_set
    /\ UNCHANGED <<running, crawl_task, waiting_for_2fa, twofa_event, tasks,
                   stops, stop_waiting, stop_signalled, webRest>>

webTaskRest == <<stops, stop_waiting, stop_signalled, webRest>>

\* the first step of the task.  A task cancelled before its first step
\* ends without running any of run_crawl, its finally included.
TaskStart ==
    /\ \E t \in 1..Len(tasks) :
        /\ tasks[t].pc = "created"
        /\ tasks' = IF tasks[t].cancel_requested
                    THEN [tasks EXCEPT ![t].pc = "done", ![t].cancel_requested = FALSE]
                    ELSE [tasks EXCEPT ![t].pc = "auth"]
    /\ UNCHANGED <<running, crawl_task, waiting_for_2fa, twofa_code, twofa_event,
                   events_set, webTaskRest>>

\* CancelledError is raised at the await the task is suspended in.  The
\* bare except around the error snapshot (crawler.py:347) takes it and the
\* crawl goes on; everywhere else it reaches the handler of run_crawl,
\* which awaits a broadcast before the finally.
Cancelled ==
    /\ \E t \in 1..Len(tasks) :
        /\ tasks[t].pc \in Suspended \ {"cancelled"}
        /\ tasks[t].cancel_requested
        /\ tasks' = [tasks EXCEPT ![t].cancel_requested = FALSE,
                                  ![t].pc = IF tasks[t].pc = "error_snapshot"
                                            THEN "loop" ELSE "cancelled"]
    /\ UNCHANGED <<running, crawl_task, waiting_for_2fa, twofa_code, twofa_event,
                   events_set, webTaskRest>>

\* the handler of CancelledError is done, or is cancelled itself: finally
TaskFinally ==
    /\ \E t \in 1..Len(tasks) :
        /\ tasks[t].pc = "cancelled"
        /\ RunFinally(t)
    /\ UNCHANGED <<waiting_for_2fa, twofa_code, twofa_event, events_set, webTaskRest>>

\* setup_auth ends without a (further) code request: no 2FA, the code was
\* taken, or the attempts are used up; the crawl loop starts
AuthDone ==
    /\ \E t \in 1..Len(tasks) :
        /\ Resumes(t, "auth")
        /\ tasks' = [tasks EXCEPT ![t].pc = "loop"]
    /\ UNCHANGED <<running, crawl_task, waiting_for_2fa, twofa_code, twofa_event,
                   events_set, webTaskRest>>

\* request_2fa_code up to its wait, called by _handle_2fa for one attempt
Request2fa ==
    /\ \E t \in 1..Len(tasks) :
        /\ Resumes(t, "auth")
        /\ tasks[t].attempt < max_attempts
        /\ LET event == [task |-> t, attempt |-> tasks[t].attempt + 1]
           IN /\ twofa_event' = event
              /\ tasks' = [tasks EXCEPT ![t].pc = "twofa_wait",
                                        ![t].attempt = @ + 1,
                                        ![t].event = event]
    /\ waiting_for_2fa' = TRUE
    /\ twofa_code' = no_code
    /\ UNCHANGED <<running, crawl_task, events_set, webTaskRest>>

\* request_2fa_code after its wait: the event was set, or the 300 s are
\* over; _handle_2fa goes on with the code, or with none
TwofaResume ==
    /\ \E t \in 1..Len(tasks), timeout \in BOOLEAN :
        /\ Resumes(t, "twofa_wait")
        /\ timeout = (tasks[t].event \notin events_set)
        /\ tasks' = [tasks EXCEPT ![t].pc = "auth"]
    /\ waiting_for_2fa' = FALSE
    /\ UNCHANGED <<running, crawl_task, twofa_code, twofa_event, events_set,
                   webTaskRest>>

\* crawl_page_with_updates up to its first await, for the next entry of the
\* frontier: nothing when the flag is down, else the page is announced
NextPage ==
    /\ \E t \in 1..Len(tasks) :
        /\ Resumes(t, "loop")
        /\ tasks[t].frontier > 0
        /\ tasks' = [tasks EXCEPT ![t].frontier = @ - 1,
                                  ![t].pc = IF running THEN "page_announce" ELSE "loop"]
    /\ UNCHANGED <<running, crawl_task, waiting_for_2fa, twofa_code, twofa_event,
                   events_set, webTaskRest>>

\* _crawl_page up to page.goto: the page is added to visited_urls
VisitPage ==
    /\ \E t \in 1..Len(tasks) :
        /\ Resumes(t, "page_announce")
        /\ tasks' = [tasks EXCEPT ![t].visited = @ + 1, ![t].pc = "in_page"]
    /\ UNCHANGED <<running, crawl_task, waiting_for_2fa, twofa_code, twofa_event,
                   events_set, webTaskRest>>

\* the visit ends, or raises and the error snapshot is taken
PageDone ==
    /\ \E t \in 1..Len(tasks), next \in {"loop", "error_snapshot"} :
        /\ Resumes(t, "in_page")
        /\ tasks' = [tasks EXCEPT ![t].pc = next]
    /\ UNCHANGED <<running, crawl_task, waiting_for_2fa, twofa_code, twofa_event,
                   events_set, webTaskRest>>

\* the error snapshot is done: _crawl_page returns []
SnapshotDone ==
    /\ \E t \in 1..Len(tasks) :
        /\ Resumes(t, "error_snapshot")
        /\ tasks' = [tasks EXCEPT ![t].pc = "loop"]
    /\ UNCHANGED <<running, crawl_task, waiting_for_2fa, twofa_code, twofa_event,
                   events_set, webTaskRest>>

\* crawler.crawl() returns: run_crawl returns at once when the flag is
\* down, else it analyzes and writes the documents
CrawlReturns ==
    /\ \E t \in 1..Len(tasks) :
        /\ Resumes(t, "loop")
        /\ tasks[t].frontier = 0
        /\ IF running
           THEN /\ tasks' = [tasks EXCEPT ![t].pc = "returning"]
                /\ UNCHANGED <<running, crawl_task>>
           ELSE RunFinally(t)
    /\ UNCHANGED <<waiting_for_2fa, twofa_code, twofa_event, events_set, webTaskRest>>

\* run_crawl ends after the "complete" broadcast, or after the handler of
\* an exception of the analysis: finally
Complete ==
    /\ \E t \in 1..Len(tasks) :
        /\ Resumes(t, "returning")
        /\ RunFinally(t)
    /\ UNCHANGED <<waiting_for_2fa, twofa_code, twofa_event, events_set, webTaskRest>>

WebIdle ==
    /\ running = FALSE
    /\ crawl_task = no_task
    /\ waiting_for_2fa = FALSE
    /\ twofa_code = no_code
    /\ twofa_event = no_event
    /\ events_set = {}
    /\ tasks = <<>>
    /\ stops = 0
    /\ stop_waiting = {}
    /\ stop_signalled = {}

no_browser_request == BrowserRequest("", "", <<>>, <<>>, "", "")

FilterIdle ==
    /\ filter_request = no_browser_request
    /\ filter_patterns = {}
    /\ filter_done = FALSE
    /\ filter_result = FALSE

no_group == EndpointGroup("", <<>>, <<>>, <<>>, <<>>, <<>>, <<>>)

CopyIdle ==
    /\ group_members = <<>>
    /\ group_passed = no_group
    /\ group_before = no_group
    /\ group_returned = no_group
    /\ shared_nodes = {}
    /\ group_redacted = FALSE

OuterIdle ==
    /\ SchemaIdle
    /\ AnalyzerIdle
    /\ WebIdle
    /\ FilterIdle
    /\ CopyIdle

InitCrawler ==
    /\ pc = "setup_auth"
    /\ visited_urls = {}
    /\ urls_to_visit = <<>>
    /\ current_page_url = no_url
    /\ cur_depth = 0
    /\ errors = <<>>
    /\ navigated = <<>>
    /\ skipped = {}
    /\ result = [returned |-> FALSE, pages_visited |-> {}, errors |-> <<>>,
                 captured |-> <<>>]
    /\ auth_success = FALSE
    /\ login_path = "pending"
    /\ attempt = 0
    /\ code_requests = 0
    /\ wrong_codes = 0
    /\ page_url = blank_page

\* a Crawler just constructed, default budgets of the model
CrawlerIdle ==
    /\ max_pages = 0
    /\ max_depth = 0
    /\ login_configured = FALSE
    /\ InitCrawler

\* ---- the crawl, for every budget; the login is taken by its return value
Init ==
    /\ max_pages \in 0..MaxPagesBound
    /\ max_depth \in 0..MaxDepthBound
    /\ login_configured \in BOOLEAN
    /\ InitCrawler
    /\ FpIdle
    /\ JsonIdle
    /\ IcptIdle
    /\ OuterIdle

Next ==
    \/ SetupAuthReturns
    \/ Dequeue
    \/ PageOk
    \/ PageFail
    \/ Finish

Spec == Init /\ [][Next]_vars

\* ---- the login sequence step by step, then a crawl of at most one page
InitLogin ==
    /\ max_pages \in {0, 1}
    /\ max_depth \in {0, 1}
    /\ login_configured \in BOOLEAN
    /\ InitCrawler
    /\ FpIdle
    /\ JsonIdle
    /\ IcptIdle
    /\ OuterIdle

NextLogin ==
    \/ SetupAuth
    \/ LoginSubmit
    \/ LoginCheck
    \/ TwofaFindInput
    \/ TwofaAsk
    \/ TwofaEnter
    \/ TwofaExhausted
    \/ LoginVerify
    \/ Dequeue
    \/ PageOk
    \/ PageFail
    \/ Finish

SpecLogin == InitLogin /\ [][NextLogin]_vars


(***************************************************************************)
(* Properties of the crawl loop.                                           *)
(***************************************************************************)
\* C1: the visited set never holds more than max_pages urls, in any state of
\* the crawl, and neither does result.pages_visited once crawl() returned.
C1_VisitedBound ==
    /\ Cardinality(visited_urls) <= max_pages
    /\ result.returned => Cardinality(result.pages_visited) <= max_pages

\* a crawl that used its whole budget of two or more pages, a failed page
\* among them
C1_Witness ==
    /\ result.returned
    /\ max_pages >= 2
    /\ Cardinality(result.pages_visited) = max_pages
    /\ \E i \in 1..Len(errors) : errors[i].kind = "crawl"

\* CrawlConfig.exclude_patterns, the default list
exclude_patterns == {"static_asset", "sockjs_node", "hot_update"}

static_asset_extensions ==
    { ".png", ".jpg", ".jpeg", ".gif", ".svg", ".ico", ".css", ".js", ".woff",
      ".woff2", ".ttf", ".eot" }

\* re.match of one default exclude pattern on the text of a page url:
\*   .*\.(png|...|eot)(\?.*)?$   .*/sockjs-node/.*   .*/hot-update\.json$
PatternMatches(p, url) ==
    CASE p = "static_asset" ->
            /\ ~url.path.slash
            /\ url.path.ext \in static_asset_extensions
            /\ (url.query # <<>> \/ url.fragment = "")
      [] p = "sockjs_node" -> url.path.stem = "/sockjs-node/info"
      [] p = "hot_update" ->
            /\ url.path.stem = "/hot-update" /\ url.path.ext = ".json"
            /\ ~url.path.slash /\ url.query = <<>> /\ url.fragment = ""

MatchesExcludePattern(url) == \E p \in exclude_patterns : PatternMatches(p, url)

\* C2: a url is added to the visited set only if, when it is dequeued, it
\* has the origin of the start url, its normalized form is not yet visited,
\* it matches no configured exclude pattern and its path does not end in a
\* skipped extension.
C2_VisitOnlyIfAllFour ==
    [][visited_urls' # visited_urls =>
        LET url == Head(urls_to_visit)[1]
        IN /\ _is_same_origin(url)
           /\ _normalize_url(url) \notin visited_urls
           /\ ~MatchesExcludePattern(url)
           /\ ~EndsWithSkipExtension(url)]_vars

\* ---- urls for the normalization: every query of up to MaxQueryTokens tokens
MaxQueryTokens == 2

QueryTokens == {1, 2, 3}

NormalizationUrls ==
    { Url("https", "site", path, query, fragment) :
        path \in {Path("/a", "", FALSE), Path("/a", "", TRUE)},
        query \in SeqsUpTo(QueryTokens, MaxQueryTokens),
        fragment \in {"", "top"} }

Occurrences(s, t) == Cardinality({i \in 1..Len(s) : s[i] = t})

\* same scheme, host and path, and queries that are permutations of the same
\* tokens; the fragments are free
SameUpToQueryOrder(u, v) ==
    /\ u.scheme = v.scheme
    /\ u.netloc = v.netloc
    /\ u.path = v.path
    /\ Len(u.query) = Len(v.query)
    /\ \A t \in QueryTokens : Occurrences(u.query, t) = Occurrences(v.query, t)

\* C3: two urls that differ only in the order of their query tokens and in
\* their fragments have the same visited-set key: once one of them has been
\* visited, _should_visit refuses every other one, and no two of them are
\* ever both navigated to.
C3_QueryOrderInsensitive ==
    /\ \A i \in 1..Len(navigated) :
         \A v \in NormalizationUrls \cup SiteUrls :
            SameUpToQueryOrder(navigated[i], v) =>
                /\ _normalize_url(v) = _normalize_url(navigated[i])
                /\ ~_should_visit(v, visited_urls)
    /\ \A i, j \in 1..Len(navigated) :
         i # j => ~SameUpToQueryOrder(navigated[i], navigated[j])

\* /a?b=1&c=2 was visited, and /a?c=2&b=1#top was then dequeued and refused
C3_Witness ==
    \E i \in 1..Len(navigated) :
        /\ Len(navigated[i].query) = 2
        /\ \E v \in skipped :
            /\ v # navigated[i]
            /\ v.query # navigated[i].query
            /\ SameUpToQueryOrder(navigated[i], v)

(***************************************************************************)
(* Properties of the login sequence.                                       *)
(***************************************************************************)
\* C7: in one login attempt a 2FA code is asked for at most max_attempts
\* times, and after max_attempts wrong codes (challenge still shown, error
\* indicator visible) it has been asked for exactly max_attempts times and
\* the only way on is the failure of the login.
C7_TwofaRetryBound ==
    /\ code_requests <= max_attempts
    /\ wrong_codes = max_attempts =>
        /\ code_requests = max_attempts
        /\ \/ pc = "twofa_ask" /\ ~ENABLED TwofaAsk /\ ENABLED TwofaExhausted
           \/ login_path = "twofa_exhausted" /\ ~auth_success

\* three wrong codes, and the login has failed
C7_Witness ==
    /\ wrong_codes = max_attempts
    /\ login_path = "twofa_exhausted"
    /\ ~auth_success

\* C8: a form login reported as successful has navigated to the start url
\* and seen a url that does not look like a login page; one that lands on a
\* login-looking url after that navigation is reported as failed.
C8_SuccessMeansVerified ==
    /\ (login_configured /\ login_path # "pending" /\ auth_success) =>
            login_path = "verified" /\ ~LooksLikeLoginPage(page_url)
    /\ login_path = "back_on_login" => ~auth_success

AuthPositions ==
    { "setup_auth", "login_goto", "login_submitted", "twofa_find", "twofa_ask",
      "twofa_enter", "verify" }

InitFp ==
    /\ CrawlerIdle
    /\ JsonIdle
    /\ IcptIdle
    /\ OuterIdle
    /\ req_a \in {Request("GET", "site", p, <<>>, "") : p \in FpPaths}
    /\ req_b \in {Request(m, "site", p, <<>>, "") : m \in {"GET", "POST"}, p \in FpPaths}
          \cup {Request(m, "api.site", p, << <<1, <<"2">>>> >>, "{}") : m \in {"GET", "POST"}, p \in FpPaths}
    /\ fp_done = FALSE
    /\ fp_a = <<>>
    /\ fp_b = <<>>
    /\ norm_once = <<>>
    /\ norm_twice = <<>>

\* endpoint_id of both endpoints; _normalize_path applied once and twice
Fingerprint ==
    /\ ~fp_done
    /\ fp_done' = TRUE
    /\ fp_a' = endpoint_id(req_a)
    /\ fp_b' = endpoint_id(req_b)
    /\ norm_once' = _normalize_path(req_a.parts)
    /\ norm_twice' = _normalize_path(_normalize_path(req_a.parts))
    /\ UNCHANGED <<cfgVars, crawlVars, authVars, req_a, req_b, jsonVars,
                   icptVars, outerVars>>

NextFp == Fingerprint

SpecFp == InitFp /\ [][NextFp]_vars

\* a part that is numeric, UUID-shaped or 24 hex characters
IsIdPart(part) ==
    \/ Len(part) >= 1 /\ \A i \in 1..Len(part) : part[i] \in Digits
    \/ Len(part) = 24 /\ \A i \in 1..24 : IsHexChar(part[i])
    \/ /\ Len(part) = 36
       /\ \A i \in {9, 14, 19, 24} : part[i] = "-"
       /\ \A i \in (1..36) \ {9, 14, 19, 24} : IsHexChar(part[i])

DifferOnlyInIdParts(p, q) ==
    /\ Len(p) = Len(q)
    /\ \A i \in 1..Len(p) : p[i] = q[i] \/ (IsIdPart(p[i]) /\ IsIdPart(q[i]))

\* C5: two captured requests with the same method whose paths have the same
\* number of parts and differ only in parts that are numeric, UUID-shaped or
\* 24 hex characters have the same endpoint_id, whatever their host, query
\* and body.
C5_FingerprintStable ==
    (fp_done /\ req_a.method = req_b.method
        /\ DifferOnlyInIdParts(req_a.parts, req_b.parts)) => fp_a = fp_b

\* /users/42 on one host and /users/<UUID in upper case> with a query and a
\* body on another: one fingerprint
C5_Witness ==
    /\ fp_done
    /\ fp_a = fp_b
    /\ req_a.parts = << <<>>, seg_users, seg_42 >>
    /\ req_b.parts = << <<>>, seg_users, seg_uuid >>
    /\ req_a.netloc # req_b.netloc
    /\ req_a.query # req_b.query
    /\ req_a.body # req_b.body

\* C6: _normalize_path is idempotent, and a path whose id-shaped parts are
\* all {id} placeholders already comes back unchanged.
C6_NormalizeIdempotent ==
    fp_done =>
        /\ norm_twice = norm_once
        /\ (\A i \in 1..Len(req_a.parts) : ~IsIdPart(req_a.parts[i])) =>
                norm_once = req_a.parts

\* /{id}/42 becomes /{id}/{id}, which a second pass leaves alone
C6_Witness ==
    /\ fp_done
    /\ req_a.parts = << <<>>, id_placeholder, seg_42 >>
    /\ norm_once = << <<>>, id_placeholder, id_placeholder >>
    /\ norm_twice = norm_once


(***************************************************************************)
(* The redaction of one JSON value.                                        *)
(***************************************************************************)
InitRedact ==
    /\ CrawlerIdle
    /\ FpIdle
    /\ IcptIdle
    /\ OuterIdle
    /\ obj \in JsonValues
    /\ redact_done = FALSE
    /\ redacted = JInt(1)

Redact ==
    /\ ~redact_done
    /\ redact_done' = TRUE
    /\ redacted' = _redact_object(obj)
    /\ UNCHANGED <<cfgVars, crawlVars, authVars, fpVars, icptVars, outerVars,
                   obj>>

NextRedact == Redact

SpecRedact == InitRedact /\ [][NextRedact]_vars

\* the key holds one of the sensitive terms, letter case ignored
HoldsSensitiveTerm(key) ==
    \E term \in SENSITIVE_FIELDS :
        \E k \in 0..(Len(key) - Len(term)) :
            \A i \in 1..Len(term) : LowerChar(key[k + i]) = term[i]

\* in r, every sensitive key that is under no sensitive key holds the marker
RECURSIVE SensitiveKeysMarked(_)
SensitiveKeysMarked(r) ==
    IF r.t = "dict"
    THEN \A key \in DOMAIN r.v :
            IF HoldsSensitiveTerm(key) THEN r.v[key] = REDACTED
            ELSE SensitiveKeysMarked(r.v[key])
    ELSE IF r.t = "list"
    THEN \A i \in 1..Len(r.v) : SensitiveKeysMarked(r.v[i])
    ELSE TRUE

\* r has the keys and the items of o, and under keys that are not sensitive
\* (and have no sensitive key above them) the scalars of o
RECURSIVE OthersKept(_, _)
OthersKept(o, r) ==
    IF o.t = "dict"
    THEN /\ r.t = "dict"
         /\ DOMAIN r.v = DOMAIN o.v
         /\ \A key \in DOMAIN o.v :
              HoldsSensitiveTerm(key) \/ OthersKept(o.v[key], r.v[key])
    ELSE IF o.t = "list"
    THEN /\ r.t = "list"
         /\ Len(r.v) = Len(o.v)
         /\ \A i \in 1..Len(o.v) : OthersKept(o.v[i], r.v[i])
    ELSE r = o

\* C10: _redact_object puts the marker under every key whose name holds a
\* sensitive term, at any depth through dicts and lists, and leaves every
\* value under keys that are not sensitive, and have no sensitive key above
\* them, as it was.
C10_RedactionRecursive ==
    redact_done => SensitiveKeysMarked(redacted) /\ OthersKept(obj, redacted)

\* {"user": {"myPassWord": "x", "name": "x"}}: the password is replaced,
\* the name is not
C10_Witness ==
    /\ redact_done
    /\ obj = JDict([k \in {key_user} |->
                JDict([j \in {key_password, key_name} |-> JStr(<<"x">>)])])
    /\ redacted.v[key_user].v[key_password] = REDACTED
    /\ redacted.v[key_user].v[key_name] = JStr(<<"x">>)


(***************************************************************************)
(* The interceptor under any order of request and response events.         *)
(***************************************************************************)
InitIcpt ==
    /\ CrawlerIdle
    /\ FpIdle
    /\ JsonIdle
    /\ IcptIdle
    /\ OuterIdle

NextIcpt ==
    \/ OnRequest
    \/ OnResponse
    \/ ReadBody
    \/ PageChange

SpecIcpt == InitIcpt /\ [][NextIcpt]_vars

\* ---- the interceptor and a caller of get_captured_endpoints
NextIcptCaller ==
    \/ NextIcpt
    \/ GetCaptured
    \/ MutateReturned

SpecIcptCaller == InitIcpt /\ [][NextIcptCaller]_vars

CapturedWith(key(_), value) ==
    {i \in 1..Len(captured_endpoints) : key(captured_endpoints[i].request) = value}

\* C4 as stated: of the requests that share one endpoint fingerprint (method
\* and normalized path, the key the analyzer groups by) at most one is in
\* the capture list.
C4_OnePerFingerprint ==
    \A i \in 1..Len(captured_endpoints) :
        Cardinality(CapturedWith(endpoint_id,
            endpoint_id(captured_endpoints[i].request))) <= 1

\* C4, amended: of the requests that share one pattern signature (method,
\* netloc, path with placeholders, sorted query keys) at most one is in the
\* capture list, under any order of the request and response events.
C4_OnePerSignature ==
    \A i \in 1..Len(requests) :
        Cardinality(CapturedWith(_get_api_signature,
            _get_api_signature(CapturedRequest(requests[i])))) <= 1

\* two different requests of one signature were issued and answered: the
\* second was counted as a duplicate and only the first is captured
C4_Witness ==
    /\ Len(requests) = 2
    /\ requests[1] # requests[2]
    /\ _get_api_signature(requests[1]) = _get_api_signature(requests[2])
    /\ responded = {1, 2}
    /\ duplicate_count = 1
    /\ Len(captured_endpoints) = 1
    /\ captured_endpoints[1].request = CapturedRequest(requests[1])

\* the places of a request in the capture list
CapturedPlaces(id) == {i \in 1..Len(captured_from) : captured_from[i] = id}

\* C17: a response whose request is in the pending table removes the entry
\* and appends exactly one endpoint, once its body has been read; a
\* recorded request is the source of at most one captured endpoint, and
\* every captured endpoint holds the request of an entry recorded before.
C17_ResponseMatching ==
    /\ Len(captured_from) = Len(captured_endpoints)
    /\ \A i \in 1..Len(captured_from) :
        /\ captured_from[i] \in recorded
        /\ captured_endpoints[i].request = CapturedRequest(requests[captured_from[i]])
    /\ \A id \in 1..Len(requests) : Cardinality(CapturedPlaces(id)) <= 1
    /\ \A id \in recorded :
        LET key == request_id(requests[id], id)
            in_reading == \E entry \in reading : entry.id = id
        IN IF id \in responded
           THEN /\ key \notin DOMAIN pending_requests
                /\ in_reading # (CapturedPlaces(id) # {})
           ELSE /\ key \in DOMAIN pending_requests
                /\ ~in_reading
                /\ CapturedPlaces(id) = {}

\* two requests were recorded; the response of the second came and its
\* endpoint is captured, the first is still pending
C17_Witness ==
    /\ recorded = {1, 2}
    /\ responded = {2}
    /\ captured_from = <<2>>
    /\ DOMAIN pending_requests = {request_id(requests[1], 1)}

\* C18: a response whose request has no entry in the pending table leaves
\* the capture list, the pending table and the set of seen signatures as
\* they are.
C18_UnknownResponseIgnored ==
    [][\A id \in 1..Len(requests) :
        (/\ id \notin responded
         /\ id \in responded'
         /\ ~\E key \in DOMAIN pending_requests : pending_requests[key].id = id) =>
            /\ captured_endpoints' = captured_endpoints
            /\ pending_requests' = pending_requests
            /\ seen_api_patterns' = seen_api_patterns]_vars

\* the response of a request that passed the filter and was discarded as a
\* duplicate has come, while the entry of the first request is pending
C18_Witness ==
    /\ Len(requests) = 2
    /\ requests[1] = requests[2]
    /\ recorded = {1}
    /\ responded = {2}
    /\ _should_capture(requests[2])
    /\ DOMAIN pending_requests = {request_id(requests[1], 1)}
    /\ captured_endpoints = <<>>

\* the request passes the filter and has a known method
Eligible(id) == _should_capture(requests[id]) /\ requests[id].method \in HttpMethod

\* C19: of the requests that pass the filter with one pattern signature,
\* the first is recorded and no later one is; no two captured endpoints
\* have the same signature.
C19_FirstWins ==
    /\ \A j \in 1..Len(requests) :
        Eligible(j) =>
            (j \in recorded <=>
                \A i \in 1..(j - 1) :
                    Eligible(i) =>
                        _get_api_signature(requests[i]) # _get_api_signature(requests[j]))
    /\ \A a, b \in 1..Len(captured_endpoints) :
        a # b => _get_api_signature(captured_endpoints[a].request)
                    # _get_api_signature(captured_endpoints[b].request)

\* two requests of one signature with different ids in the path: the
\* response of the later one came first, and the first one is the one captured
C19_Witness ==
    /\ Len(requests) = 2
    /\ requests[1].parts # requests[2].parts
    /\ Eligible(1) /\ Eligible(2)
    /\ _get_api_signature(requests[1]) = _get_api_signature(requests[2])
    /\ recorded = {1}
    /\ captured_from = <<1>>
    /\ responded = {1, 2}

\* s is a prefix of t
IsPrefix(s, t) == Len(s) <= Len(t) /\ SubSeq(t, 1, Len(s)) = s

\* C20: every step keeps the capture list as a prefix of the new capture
\* list; get_captured_endpoints hands out a list with the items of the
\* capture list, and a change the caller makes to that list leaves the
\* interceptor's list as it is.
C20_AppendOnlyAndCopied ==
    [][/\ IsPrefix(captured_endpoints, captured_endpoints')
       /\ (~returned.taken /\ returned'.taken) =>
            returned'.items = captured_endpoints
       /\ (~returned.mutated /\ returned'.mutated) =>
            /\ returned'.items # returned.items
            /\ captured_endpoints' = captured_endpoints]_vars

\* the caller emptied the list it got, the interceptor still has its
\* endpoint
C20_Witness ==
    /\ returned.mutated
    /\ returned.items = <<>>
    /\ Len(captured_endpoints) >= 1

(***************************************************************************)
(* Schema inference on one object.                                         *)
(***************************************************************************)
InitSchema ==
    /\ CrawlerIdle
    /\ FpIdle
    /\ JsonIdle
    /\ IcptIdle
    /\ AnalyzerIdle
    /\ WebIdle
    /\ FilterIdle
    /\ CopyIdle
    /\ schema_obj \in SchemaObjects
    /\ schema_done = FALSE
    /\ schema_props = <<>>

NextSchema == InferSchema

SpecSchema == InitSchema /\ [][NextSchema]_vars

\* the schema type the kind of a JSON value stands for; a str may also be
\* taken for a number or a boolean
TypesOfKind(value) ==
    CASE value.t = "int" -> {"integer"}
      [] value.t = "bool" -> {"boolean"}
      [] value.t = "float" -> {"number"}
      [] value.t = "null" -> {"null"}
      [] value.t = "list" -> {"array"}
      [] value.t = "dict" -> {"object"}
      [] value.t = "str" -> {"string", "integer", "number", "boolean"}

\* C11: for every key of the object that holds an array the inferred
\* property has type array; its item schema is taken from the first element
\* of the array (name "items", the type of that element, the element as
\* example when it is a scalar), and an empty array gives type array and no
\* item schema.
C11_ArraySchema ==
    schema_done =>
        \A key \in DOMAIN schema_obj.v :
            LET value == schema_obj.v[key]
                prop == schema_props[key]
            IN value.t = "list" =>
                /\ prop.schema_type = "array"
                /\ value.v = <<>> => prop.items = <<>>
                /\ value.v # <<>> =>
                    /\ Len(prop.items) = 1
                    /\ prop.items[1].name = items_name
                    /\ prop.items[1].schema_type \in TypesOfKind(value.v[1])
                    /\ value.v[1].t \notin {"dict", "list"} =>
                            prop.items[1].example = value.v[1]

\* {"tags": [1, "x"], "items": []}: tags is an array of integer, items an
\* array with no item schema
C11_Witness ==
    /\ schema_done
    /\ schema_obj = JDict([k \in {key_tags, items_name} |->
                        IF k = key_tags THEN JList(<<JInt(1), JStr(<<"x">>)>>)
                        ELSE JList(<<>>)])
    /\ schema_props[key_tags].schema_type = "array"
    /\ schema_props[key_tags].items[1].schema_type = "integer"
    /\ schema_props[items_name].schema_type = "array"
    /\ schema_props[items_name].items = <<>>

(***************************************************************************)
(* The analyzer on one list of captured endpoints.                         *)
(***************************************************************************)
InitAnalyze ==
    /\ CrawlerIdle
    /\ FpIdle
    /\ JsonIdle
    /\ IcptIdle
    /\ SchemaIdle
    /\ WebIdle
    /\ FilterIdle
    /\ CopyIdle
    /\ analyzer_input \in SeqsUpTo(AnalyzerEndpoints, MaxCaptured)
    /\ filter_non_api \in BOOLEAN
    /\ redact_sensitive \in BOOLEAN
    /\ analyze_done = FALSE
    /\ analyzed = <<>>

NextAnalyze == Analyze

SpecAnalyze == InitAnalyze /\ [][NextAnalyze]_vars

\* the schema property carries the format as a tag
TaggedWithFormat(prop, format) ==
    "format" \in DOMAIN prop /\ prop.format = format

\* C12: from the captures of the two-page site, GET /api/users answered
\* with an array of user objects and GET /api/users/1 answered with one user
\* object, analyze() makes exactly two groups, GET /api/users and
\* GET /api/users/{id}; the second has a path parameter id of type integer
\* with example 1, and the email property of its response schema is tagged
\* with the format email.
C12_TwoPageSite ==
    (analyze_done /\ analyzer_input = <<ep_users_list, ep_user_1>>) =>
        /\ Len(analyzed) = 2
        /\ analyzed[1].method = "GET"
        /\ analyzed[1].path_pattern = << <<>>, seg_api, seg_users >>
        /\ analyzed[2].method = "GET"
        /\ analyzed[2].path_pattern = << <<>>, seg_api, seg_users, id_placeholder >>
        /\ Len(analyzed[2].parameters.path) = 1
        /\ analyzed[2].parameters.path[1].name = key_id
        /\ analyzed[2].parameters.path[1].schema_type = "integer"
        /\ analyzed[2].parameters.path[1].example = JStr(<<"1">>)
        /\ key_email \in DOMAIN analyzed[2].responses[200].schema_properties
        /\ TaggedWithFormat(analyzed[2].responses[200].schema_properties[key_email], "email")

\* C13: the list analyze() returns is in non-decreasing order of
\* (path pattern, method): no group is followed by one with a smaller key.
C13_OutputSorted ==
    analyze_done =>
        \A i, j \in 1..Len(analyzed) : i < j => ~SortKeyLess(analyzed[j], analyzed[i])

\* three groups given in descending order of their keys come back in
\* ascending order: /api/users, then GET and POST of /api/users/{id}
C13_Witness ==
    /\ analyze_done
    /\ Len(analyzer_input) = 3
    /\ analyzer_input[1].request.method = "POST"
    /\ analyzer_input[2] = ep_user_1
    /\ analyzer_input[3] = ep_users_list
    /\ Len(analyzed) = 3
    /\ analyzed[1].path_pattern = << <<>>, seg_api, seg_users >>
    /\ analyzed[2].method = "GET"
    /\ analyzed[3].method = "POST"
    /\ analyzed[2].path_pattern = analyzed[3].path_pattern

\* the (path pattern, method) pairs of a list of groups, in its order
GroupPairs(groups) == [n \in 1..Len(groups) |-> <<groups[n].path_pattern, groups[n].method>>]

\* the rearrangements of a list
Rearrangements(s) == {[n \in 1..Len(s) |-> s[p[n]]] : p \in Permutations(1..Len(s))}

\* C14: analyze() gives the same sequence of (path pattern, method) pairs
\* for every rearrangement of its input list, whatever the set order.
C14_OrderIndependent ==
    analyze_done =>
        \A other \in Rearrangements(analyzer_input) :
            \A hash_order \in HashOrders(AllQueryValues(analyzer_input)) :
                GroupPairs(analyze(other, filter_non_api, redact_sensitive, hash_order))
                    = GroupPairs(analyzed)

\* GET and POST of /api/users/{id} and GET /api/users, given with the POST
\* first: the pairs come back as for any other order of the three
C14_Witness ==
    /\ analyze_done
    /\ Len(analyzer_input) = 3
    /\ analyzer_input[1].request.method = "POST"
    /\ analyzer_input[2] = ep_users_list
    /\ analyzer_input[3] = ep_user_1
    /\ GroupPairs(analyzed) =
         << << << <<>>, seg_api, seg_users >>, "GET" >>,
            << << <<>>, seg_api, seg_users, id_placeholder >>, "GET" >>,
            << << <<>>, seg_api, seg_users, id_placeholder >>, "POST" >> >>

InitWeb ==
    /\ CrawlerIdle
    /\ FpIdle
    /\ JsonIdle
    /\ IcptIdle
    /\ OuterIdle

NextWeb ==
    \/ StartCrawl
    \/ StopCrawl
    \/ StopResume
    \/ StopTimeout
    \/ Submit2fa
    \/ TaskStart
    \/ Cancelled
    \/ TaskFinally
    \/ AuthDone
    \/ Request2fa
    \/ TwofaResume
    \/ NextPage
    \/ VisitPage
    \/ PageDone
    \/ SnapshotDone
    \/ CrawlReturns
    \/ Complete

SpecWeb == InitWeb /\ [][NextWeb]_vars

\* C16: once a stop signal has come while a crawl task was alive, the task
\* adds no further page to its visited set, and a wait for a 2FA code the
\* task is in is released: its event is set or its cancellation is on the
\* way.
C16_StopCancels ==
    /\ [][\A t \in 1..Len(tasks) :
            t \in stop_signalled => tasks'[t].visited = tasks[t].visited]_vars
    /\ [](\A t \in stop_signalled :
            tasks[t].pc = "twofa_wait" =>
                tasks[t].cancel_requested \/ tasks[t].event \in events_set)

(***************************************************************************)
(* The interceptor over a whole crawl: events until the browser is closed, *)
(* then crawl() returns.                                                   *)
(***************************************************************************)
\* the end of Crawler.crawl: browser.close(), the result compiled, the
\* capture list taken from the interceptor and returned
CrawlEnd ==
    /\ pc # "done"
    /\ pc' = "done"
    /\ result' = [returned |-> TRUE, pages_visited |-> visited_urls,
                  errors |-> errors,
                  captured |-> get_captured_endpoints(captured_endpoints).items]
    /\ UNCHANGED <<visited_urls, urls_to_visit, current_page_url, cur_depth,
                   errors, navigated, skipped>>
    /\ UNCHANGED <<cfgVars, authVars, fpVars, jsonVars, icptVars, outerVars>>

\* the browser sends events, and the scheduler changes pages, only until
\* browser.close(); a handler suspended at response.text() still ends
NextIcptCrawl ==
    \/ pc # "done" /\ OnRequest
    \/ pc # "done" /\ OnResponse
    \/ pc # "done" /\ PageChange
    \/ ReadBody
    \/ CrawlEnd

SpecIcptCrawl == InitIcpt /\ [][NextIcptCrawl]_vars

\* C21: once crawl() has returned, the pending table holds no entry: every
\* entry was removed when its response was matched, or dropped at the end
\* of the crawl.
C21_NoPendingAfterCrawl ==
    result.returned => DOMAIN pending_requests = {}

\* ---- one call of _should_capture on a request of any of the shapes below

seg_v4 == <<"v", "4">>
seg_logo_png == <<"l", "o", "g", "o", ".", "p", "n", "g">>
seg_info == <<"i", "n", "f", "o">>

\* request.resource_type of Playwright, the values the filter tells apart and
\* two it does not name
FilterResourceTypes ==
    {"document", "stylesheet", "image", "font", "media", "manifest",
     "xhr", "fetch", "script", "other"}

FilterPaths ==
    { << <<>>, seg_users >>,
      << <<>>, seg_api, seg_users >>,
      << <<>>, <<"v", "1">>, seg_users >>,
      << <<>>, <<"V", "2">>, seg_users >>,
      << <<>>, seg_v4, seg_users >>,
      << <<>>, <<"v", "1">> >>,
      << <<>>, seg_graphql >>,
      << <<>>, <<"r", "e", "s", "t">>, seg_users >>,
      << <<>>, <<"d", "a", "t", "a">>, seg_users >>,
      << <<>>, <<"a", "j", "a", "x">>, seg_users >>,
      << <<>>, <<"j", "s", "o", "n">>, seg_users >>,
      << <<>>, seg_api, seg_logo_png >>,
      << <<>>, seg_api, seg_sockjs_node, seg_info >>,
      << <<>>, seg_users, seg_hot_update_json >> }

FilterRequests ==
    { BrowserRequest("GET", netloc, parts, <<>>, type, "") :
        netloc \in {"site", "api.site"}, parts \in FilterPaths,
        type \in FilterResourceTypes }

\* config.include_patterns: "https://site/api/.*", "https://api.site/.*"
FilterIncludePatterns ==
    { [netloc |-> "site", parts |-> << <<>>, seg_api >>],
      [netloc |-> "api.site", parts |-> << <<>> >>] }

InitFilter ==
    /\ CrawlerIdle
    /\ FpIdle
    /\ JsonIdle
    /\ IcptIdle
    /\ SchemaIdle
    /\ AnalyzerIdle
    /\ WebIdle
    /\ CopyIdle
    /\ filter_request \in FilterRequests
    /\ filter_patterns \in SUBSET FilterIncludePatterns
    /\ filter_done = FALSE
    /\ filter_result = FALSE

\* handle_request up to its first test: if not self._should_capture(request)
ShouldCaptureCall ==
    /\ ~filter_done
    /\ filter_done' = TRUE
    /\ filter_result' = ShouldCapture(filter_request, filter_patterns)
    /\ UNCHANGED <<filter_request, filter_patterns>>
    /\ UNCHANGED <<cfgVars, crawlVars, authVars, fpVars, jsonVars, icptVars,
                   schemaVars, analyzerVars, webVars, copyVars>>

NextFilter == ShouldCaptureCall

SpecFilter == InitFilter /\ [][NextFilter]_vars

\* "/v{n}/" for a version number n, the path lower-cased
IsVersionPart(part) ==
    /\ Len(part) >= 2
    /\ part[1] = "v"
    /\ isdigit(SubSeq(part, 2, Len(part)))

HasIndicatorOfAnyVersion(parts) ==
    \/ HasApiIndicator(parts)
    \/ \E i \in 2..(Len(parts) - 1) : IsVersionPart(lower(parts[i]))

NonApiResourceTypes ==
    {"document", "stylesheet", "image", "font", "media", "manifest"}

\* the four tests in their order: by resource type, by exclude pattern, by
\* include pattern when some is configured, else by indicator or call type
FilterAccepts(request, patterns, indicator) ==
    /\ request.resource_type \notin NonApiResourceTypes
    /\ ~ExcludePatternMatches(request)
    /\ patterns # {} =>
          \E pattern \in patterns : IncludePatternMatches(pattern, request)
    /\ patterns = {} =>
          indicator \/ request.resource_type \in {"xhr", "fetch"}

\* C22 as stated: the filter rejects the six non-API resource types, then
\* the urls an exclude pattern matches, then decides by the include patterns
\* when some are configured, and otherwise accepts exactly the paths with an
\* API indicator, "/v{n}/" for any version number n among them, and the
\* xhr/fetch calls.
C22_FilterAnyVersion ==
    filter_done =>
        filter_result = FilterAccepts(filter_request, filter_patterns,
                            HasIndicatorOfAnyVersion(filter_request.parts))

\* C22, amended: the same order of tests, the version indicators being
\* "/v1/", "/v2/" and "/v3/" only.
C22_FilterOrder ==
    filter_done =>
        filter_result = FilterAccepts(filter_request, filter_patterns,
                            HasApiIndicator(filter_request.parts))

\* a call that an include pattern matches and an exclude pattern matches too
\* was rejected
C22_Witness ==
    /\ filter_done
    /\ filter_patterns # {}
    /\ \E pattern \in filter_patterns :
          IncludePatternMatches(pattern, filter_request)
    /\ ExcludePatternMatches(filter_request)
    /\ filter_request.resource_type = "xhr"
    /\ ~filter_result

\* C23: when the handler of a matched response is done with the body, read
\* or not (response.text() and response.body() both failing leave it
\* absent), the endpoint of that request is appended to the capture list,
\* and the pending entry is gone.
C23_UnreadableBodyStillCaptured ==
    [][\A entry \in reading :
         entry \notin reading' =>
            /\ Len(captured_endpoints') = Len(captured_endpoints) + 1
            /\ captured_endpoints'[Len(captured_endpoints')].request = entry.request
            /\ captured_endpoints'[Len(captured_endpoints')].source_page
                 = entry.source_page
            /\ captured_endpoints'[Len(captured_endpoints')].response.body
                 \in {"text", "None"}
            /\ request_id(requests[entry.id], entry.id)
                 \notin DOMAIN pending_requests']_vars

\* an endpoint with an absent body is in the list, its pending entry removed
C23_Witness ==
    \E i \in 1..Len(captured_endpoints) :
        /\ captured_endpoints[i].response.body = "None"
        /\ request_id(requests[captured_from[i]], captured_from[i])
             \notin DOMAIN pending_requests

\* C24: a login attempt never goes from the submitted form straight to a
\* successful outcome: after the submission the outcome decided on the spot
\* can only be a failure (a visible error element); success is reached
\* through the 2FA detection, and through the 2FA loop when a challenge is
\* shown.
C24_NoSuccessStraightFromSubmission ==
    [][(pc = "login_submitted" /\ pc' \notin AuthPositions) => ~auth_success']_vars

TwofaPositions == {"twofa_find", "twofa_ask", "twofa_enter"}

Retained ==
    IF filter_non_api THEN SelectSeq(analyzer_input, _is_api_endpoint)
    ELSE analyzer_input

\* C26: analyze() partitions the endpoints it keeps by fingerprint: one
\* group for each distinct endpoint_id, every kept endpoint in the captured
\* list of exactly one group (as often as it was captured), and all the
\* members of a group have the method of the group and a path that
\* normalizes to its path pattern.
C26_GroupsPartitionByFingerprint ==
    analyze_done =>
        /\ Len(analyzed) =
             Cardinality({endpoint_id(Retained[i].request) : i \in 1..Len(Retained)})
        /\ \A i \in 1..Len(Retained) :
             \E n \in 1..Len(analyzed) :
                /\ Occurrences(analyzed[n].captured, Retained[i])
                     = Occurrences(Retained, Retained[i])
                /\ \A k \in 1..Len(analyzed) :
                     k # n => Occurrences(analyzed[k].captured, Retained[i]) = 0
        /\ \A n \in 1..Len(analyzed) :
             /\ analyzed[n].captured # <<>>
             /\ \A j \in 1..Len(analyzed[n].captured) :
                 LET member == analyzed[n].captured[j]
                 IN /\ Occurrences(Retained, member) > 0
                    /\ member.request.method = analyzed[n].method
                    /\ _normalize_path(member.request.parts) = analyzed[n].path_pattern

\* two groups, one of them with two members of different paths
C26_Witness ==
    /\ analyze_done
    /\ Len(analyzed) = 2
    /\ \E n \in 1..2 :
         /\ Len(analyzed[n].captured) = 2
         /\ analyzed[n].captured[1].request.parts # analyzed[n].captured[2].request.parts

\* ---- one call of _redact_sensitive_data on a group of _analyze_group

\* the fields of an EndpointGroup that hold a mutable object: the list of
\* captured endpoints, the list of Parameter, the RequestBody when there is
\* one, the dict of ResponseBody
MutableFields(group) ==
    {"captured", "parameters", "responses"}
        \cup (IF group.request_body # <<>> THEN {"request_body"} ELSE {})

\* group.model_copy(): a new EndpointGroup whose fields hold the objects of
\* the original
ModelCopyShallow(group) == [copy |-> group, shared |-> MutableFields(group)]

\* group.model_copy(deep=True): a new EndpointGroup and a new object for
\* every object reachable from it
model_copy_deep(group) == [copy |-> group, shared |-> {}]

seg_login == <<"l", "o", "g", "i", "n">>
key_token == <<"t", "o", "k", "e", "n">>

\* the one secret of the model: it is the value of fields with a sensitive
\* key ("myPassWord", "pwd", "token") and of nothing else
secret == <<"h", "u", "n", "t", "e", "r", "2">>

\* the form body "pwd=hunter2"
form_text == <<"p", "w", "d", "=">> \o secret

LoginRequest(body, content_type) ==
    RequestOfType("POST", "site", << <<>>, seg_api, seg_login >>, <<>>, body, content_type)

\* POST /api/login with a JSON object, a form, a JSON array or no body
LoginEndpoints ==
    { CapturedEndpoint(
        LoginRequest(JsonText(JDict([k \in {key_user, key_password} |->
                        IF k = key_user THEN JStr(<<"b", "o", "b">>) ELSE JStr(secret)])),
                     "application/json"),
        Response(200, "application/json",
                 JsonText(JDict([k \in {key_token} |-> JStr(secret)]))), start_url),
      CapturedEndpoint(
        LoginRequest(TextBody(form_text), "application/x-www-form-urlencoded"),
        Response(200, "text/html", PlainText), start_url),
      CapturedEndpoint(
        LoginRequest(JsonText(JList(<<JInt(1)>>)), "application/json"),
        Response(401, "application/json", no_body), start_url),
      CapturedEndpoint(
        LoginRequest(no_body, "unknown"),
        Response(401, "application/json", no_body), start_url) }

\* the endpoints a group to redact is made of
RedactionEndpoints == AnalyzerEndpoints \cup LoginEndpoints

\* groups[endpoint_id] of analyze(): endpoints of one endpoint_id
MemberLists ==
    { members \in SeqsUpTo(RedactionEndpoints, MaxCaptured) :
        /\ members # <<>>
        /\ \A i \in 1..Len(members) :
             endpoint_id(members[i].request) = endpoint_id(members[1].request) }

InitCopy ==
    /\ CrawlerIdle
    /\ FpIdle
    /\ JsonIdle
    /\ IcptIdle
    /\ SchemaIdle
    /\ AnalyzerIdle
    /\ WebIdle
    /\ FilterIdle
    /\ group_members \in MemberLists
    /\ group_passed = no_group
    /\ group_before = no_group
    /\ group_returned = no_group
    /\ shared_nodes = {}
    /\ group_redacted = FALSE

copyRest == <<cfgVars, crawlVars, authVars, fpVars, jsonVars, icptVars,
              schemaVars, analyzerVars, webVars, filterVars>>

\* analyze(): group = self._analyze_group(endpoints)
AnalyzeGroup ==
    /\ group_passed = no_group
    /\ \E hash_order \in HashOrders(AllQueryValues(group_members)) :
        /\ group_passed' = _analyze_group(group_members, hash_order)
        /\ group_before' = _analyze_group(group_members, hash_order)
    /\ UNCHANGED <<group_members, group_returned, shared_nodes, group_redacted>>
    /\ UNCHANGED copyRest

\* analyze(): group = self._redact_sensitive_data(group).  The function
\* copies the group and assigns to the fields of the RequestBody, of the
\* ResponseBody objects, of their SchemaProperty objects and of the
\* Parameter objects it reaches from the copy; an object the copy shares
\* with the group passed in shows these assignments in both.
RedactSensitiveData ==
    /\ group_passed # no_group
    /\ ~group_redacted
    /\ group_redacted' = TRUE
    /\ LET copied == model_copy_deep(group_passed)
           result_group == _redact_sensitive_data(copied.copy)
       IN /\ group_returned' = result_group
          /\ shared_nodes' = copied.shared
          /\ group_passed' =
                [field \in DOMAIN group_passed |->
                    IF field \in copied.shared THEN result_group[field]
                    ELSE group_passed[field]]
    /\ UNCHANGED <<group_members, group_before>>
    /\ UNCHANGED copyRest

NextCopy ==
    \/ AnalyzeGroup
    \/ RedactSensitiveData

SpecCopy == InitCopy /\ [][NextCopy]_vars

\* C27: redaction works on a deep copy: after _redact_sensitive_data(group)
\* the group passed in is as it was, and the group returned shares no
\* mutable object with it.
C27_RedactionOnDeepCopy ==
    group_redacted =>
        /\ group_passed = group_before
        /\ shared_nodes = {}

\* a group whose request body example held a sensitive value was redacted:
\* the group returned differs from the one passed in
C27_Witness ==
    /\ group_redacted
    /\ group_before.request_body # <<>>
    /\ group_returned.request_body # group_before.request_body
    /\ group_returned.captured = group_before.captured

\* the value holds the secret: a str that contains it, or a list or a dict
\* with such a value in it
RECURSIVE HoldsSecret(_)
HoldsSecret(value) ==
    CASE value.t = "str" -> IsSubstring(secret, value.v)
      [] value.t = "list" -> \E i \in 1..Len(value.v) : HoldsSecret(value.v[i])
      [] value.t = "dict" -> \E key \in DOMAIN value.v : HoldsSecret(value.v[key])
      [] OTHER -> FALSE

\* the example of a schema property, or of one below it, holds the secret
RECURSIVE PropertyHoldsSecret(_)
PropertyHoldsSecret(prop) ==
    \/ HoldsSecret(prop.example)
    \/ \E name \in DOMAIN prop.properties : PropertyHoldsSecret(prop.properties[name])
    \/ \E i \in 1..Len(prop.items) : PropertyHoldsSecret(prop.items[i])

\* the example, an entry of the examples or a schema property of a
\* RequestBody or ResponseBody holds the secret
BodyHoldsSecret(body) ==
    \/ HoldsSecret(body.example)
    \/ \E n \in 1..Len(body.examples) : HoldsSecret(body.examples[n])
    \/ \E name \in DOMAIN body.schema_properties :
            PropertyHoldsSecret(body.schema_properties[name])

ParameterHoldsSecret(param) ==
    \/ HoldsSecret(param.example)
    \/ \E example \in param.examples : HoldsSecret(example)

GroupHoldsSecret(group) ==
    \/ \E n \in 1..Len(group.request_body) : BodyHoldsSecret(group.request_body[n])
    \/ \E status_code \in DOMAIN group.responses :
            BodyHoldsSecret(group.responses[status_code])
    \/ \E n \in 1..Len(group.parameters.path) :
            ParameterHoldsSecret(group.parameters.path[n])
    \/ \E name \in DOMAIN group.parameters.query :
            ParameterHoldsSecret(group.parameters.query[name])

\* C28: with redaction on, no example of a group (of its request body, of
\* its responses, of their schema properties, of its parameters) still
\* carries the value of a field with a sensitive key.  The secret is the
\* value of such fields only, in every endpoint of the model.
C28_NoSensitiveExample ==
    group_redacted => ~GroupHoldsSecret(group_returned)

\* the request carries a JSON object as its body
CarriesJsonObject(request) ==
    /\ request.body.present
    /\ request.content_type = "application/json"
    /\ request.body.parses
    /\ request.body.json.t = "dict"
    /\ DOMAIN request.body.json.v # {}

\* C29: a group whose method is not POST, PUT or PATCH gets no request
\* body, whatever its requests carried; a POST, PUT or PATCH group in which
\* some member carries a JSON object body has a request schema that is not
\* empty.
C29_SchemaFromFirstJsonObject ==
    group_before # no_group =>
        /\ group_before.method \notin {"POST", "PUT", "PATCH"} =>
                group_before.request_body = <<>>
        /\ (/\ group_before.method \in {"POST", "PUT", "PATCH"}
            /\ \E n \in 1..Len(group_members) :
                    CarriesJsonObject(group_members[n].request)) =>
                /\ group_before.request_body # <<>>
                /\ DOMAIN group_before.request_body[1].schema_properties # {}

\* C30: the depth budget: every entry of the frontier and the page being
\* visited have a depth of at most max_depth (links are taken only from
\* pages at a depth below max_depth and are enqueued one deeper).
C30_DepthBudget ==
    /\ \A i \in 1..Len(urls_to_visit) : urls_to_visit[i][2] <= max_depth
    /\ pc = "page" => cur_depth <= max_depth

\* a page is being visited at the greatest depth, 2: it was enqueued from a
\* page of depth 1, itself enqueued from the start page
C30_Witness ==
    /\ max_depth = 2
    /\ pc = "page"
    /\ cur_depth = max_depth
    /\ Len(navigated) = 3

\* the links a page may yield, those that pass _should_visit
ValidLinks(links) == SelectSeq(links, LAMBDA l : _should_visit(l, visited_urls))

\* the first k links, each with the depth of the page plus one
AtNextDepth(links, k) == [i \in 1..k |-> <<links[i], cur_depth + 1>>]

Min(a, b) == IF a < b THEN a ELSE b

\* the room the budget leaves in the frontier
Room ==
    IF Cardinality(visited_urls) + Len(urls_to_visit) < max_pages
    THEN max_pages - Cardinality(visited_urls) - Len(urls_to_visit)
    ELSE 0

\* C31 as stated: whatever valid links a page at a depth below max_depth
\* yields, each is enqueued exactly when len(visited) < max_pages, the test
\* of the crawl loop.
C31_EnqueueByLoopGuard ==
    (pc = "page" /\ FollowsLinks(cur_depth)) =>
        \A links \in SeqsUpTo(SiteUrls, MaxLinks) :
            Enqueue(urls_to_visit, ValidLinks(links), cur_depth, visited_urls)
              = IF Cardinality(visited_urls) < max_pages
                THEN urls_to_visit
                       \o AtNextDepth(ValidLinks(links), Len(ValidLinks(links)))
                ELSE urls_to_visit

\* C31, amended: each valid link is enqueued exactly when
\* len(visited) + len(frontier) < max_pages at the time it is enqueued: the
\* frontier takes the first links up to the room the budget leaves.
C31_EnqueueByRoom ==
    (pc = "page" /\ FollowsLinks(cur_depth)) =>
        \A links \in SeqsUpTo(SiteUrls, MaxLinks) :
            Enqueue(urls_to_visit, ValidLinks(links), cur_depth, visited_urls)
              = urls_to_visit
                  \o AtNextDepth(ValidLinks(links), Min(Len(ValidLinks(links)), Room))

\* the links of the start page have filled the frontier: one page visited,
\* two entries waiting, and a budget of three pages, so that the loop goes
\* on while no further link would be taken
C31_Witness ==
    /\ max_pages = 3
    /\ pc = "loop"
    /\ Cardinality(visited_urls) = 1
    /\ Len(urls_to_visit) = 2
    /\ \A i \in 1..2 : urls_to_visit[i][2] = 1

\* C32: the frontier is first in, first out and is seeded with
\* (start_url, 0): an entry leaves at the head and the page visited is that
\* entry, links join at the tail; the depths along the frontier do not
\* decrease and none is below the depth of the page being visited, so the
\* pages are visited in an order of depths that never decreases; the first
\* page visited is the start url.
C32_BreadthFirst ==
    /\ [](/\ \A i, j \in 1..Len(urls_to_visit) :
                i < j => urls_to_visit[i][2] <= urls_to_visit[j][2]
          /\ (pc = "page") =>
                (\A i \in 1..Len(urls_to_visit) : cur_depth <= urls_to_visit[i][2])
          /\ (navigated # <<>>) => (navigated[1] = start_url))
    /\ [][/\ (Len(urls_to_visit') < Len(urls_to_visit)) =>
               (urls_to_visit' = Tail(urls_to_visit))
          /\ (Len(urls_to_visit') < Len(urls_to_visit) /\ pc' = "page") =>
               (/\ current_page_url' = Head(urls_to_visit)[1]
                /\ cur_depth' = Head(urls_to_visit)[2])
          /\ (Len(urls_to_visit') > Len(urls_to_visit)) =>
               (SubSeq(urls_to_visit', 1, Len(urls_to_visit)) = urls_to_visit)]_vars

\* the two links of the start page are visited in the order in which they
\* were enqueued: the third visit is at depth 1, as the second was
C32_Witness ==
    /\ Len(navigated) = 3
    /\ navigated[1] = start_url
    /\ pc = "page"
    /\ cur_depth = 1
    /\ current_page_url = navigated[3]

\* the crawl with every step it can take eventually taken: a page visit
\* that has begun returns, normally or through the handler of _crawl_page
SpecFair == Init /\ [][Next]_vars /\ WF_vars(Next)

NextIcptClear ==
    \/ OnRequest
    \/ OnResponse
    \/ ReadBody
    \/ Clear

SpecIcptClear == InitIcpt /\ [][NextIcptClear]_vars

\* C34: a call of clear() leaves the capture list and the pending table
\* empty and the set of seen signatures as it was; a request that passes
\* the filter after the call, with the signature of one recorded before the
\* call, is not entered in the pending table and is never captured.
C34_ClearKeepsSeen ==
    /\ [][(Len(clear_calls') > Len(clear_calls)) =>
            (/\ captured_endpoints' = <<>>
             /\ DOMAIN pending_requests' = {}
             /\ seen_api_patterns' = seen_api_patterns)]_vars
    /\ [](\A c \in 1..Len(clear_calls) :
            \A i \in 1..clear_calls[c] :
                \A j \in (clear_calls[c] + 1)..Len(requests) :
                    (/\ i \in recorded
                     /\ Eligible(j)
                     /\ _get_api_signature(requests[i]) = _get_api_signature(requests[j]))
                    => (/\ j \notin recorded
                        /\ \A e \in 1..Len(captured_from) : captured_from[e] # j
                        /\ _get_api_signature(requests[j]) \in seen_api_patterns))

\* request 1 was captured, clear() emptied the list, and request 2 with
\* the signature of request 1 came after the call and was counted as a
\* duplicate
C34_Witness ==
    /\ clear_calls = <<1>>
    /\ Len(requests) = 2
    /\ recorded = {1}
    /\ responded = {1, 2}
    /\ reading = {}
    /\ Eligible(2)
    /\ _get_api_signature(requests[1]) = _get_api_signature(requests[2])
    /\ duplicate_count = 1
    /\ captured_endpoints = <<>>
    /\ DOMAIN pending_requests = {}

\* C35: the signature of a request is in the set of seen signatures from
\* the moment the request is recorded; while a recorded request has no
\* response, no captured endpoint has its signature, whatever later
\* requests with that signature were answered; the captured endpoints and
\* the pending entries together are never more than the seen signatures.
C35_SeenAtRequest ==
    /\ Len(captured_endpoints) + Cardinality(DOMAIN pending_requests)
            <= Cardinality(seen_api_patterns)
    /\ \A i \in recorded : _get_api_signature(requests[i]) \in seen_api_patterns
    /\ \A i \in recorded \ responded :
        \A e \in 1..Len(captured_endpoints) :
            _get_api_signature(captured_endpoints[e].request)
                # _get_api_signature(requests[i])

\* the first request of a signature has no response, a later request with
\* the same signature has one, and nothing is captured
C35_Witness ==
    /\ Len(requests) = 2
    /\ Eligible(1) /\ Eligible(2)
    /\ _get_api_signature(requests[1]) = _get_api_signature(requests[2])
    /\ recorded = {1}
    /\ responded = {2}
    /\ Cardinality(DOMAIN pending_requests) = 1
    /\ Cardinality(seen_api_patterns) = 1
    /\ captured_endpoints = <<>>

\* C36: the pending entry of a request holds the page the scheduler is on
\* when the request is observed; a change of page, and the arrival of the
\* response, leave the entry as it is, and the endpoint appended has the
\* source_page of the entry.  The scheduler's page is empty until the
\* first page visit, so a request observed before it, the login included,
\* has the empty source_page.
C36_SourcePageAtRequest ==
    /\ current_page_url = no_url
    /\ [][/\ \A i \in recorded' \ recorded :
               LET key == request_id(requests'[i], i)
               IN /\ key \in DOMAIN pending_requests'
                  /\ pending_requests'[key].source_page = current_page_url
          /\ \A k \in (DOMAIN pending_requests) \cap (DOMAIN pending_requests') :
               pending_requests'[k] = pending_requests[k]
          /\ \A entry \in reading' \ reading :
               \E k \in DOMAIN pending_requests : pending_requests[k] = entry
          /\ (Len(captured_endpoints') > Len(captured_endpoints)) =>
               (/\ SubSeq(captured_endpoints', 1, Len(captured_endpoints))
                       = captured_endpoints
                /\ \E entry \in reading :
                       /\ entry.id = captured_from'[Len(captured_from')]
                       /\ captured_endpoints'[Len(captured_endpoints')].source_page
                           = entry.source_page)
          /\ (current_page_url' # current_page_url) =>
               (/\ pending_requests' = pending_requests
                /\ reading' = reading
                /\ captured_endpoints' = captured_endpoints)]_vars

\* the scheduler is on its second page; one endpoint was captured from a
\* request issued before the first page, another from a request issued on
\* the first page
C36_Witness ==
    /\ current_page_url = PageOrder[3]
    /\ Len(captured_endpoints) = 2
    /\ captured_endpoints[1].source_page = no_url
    /\ captured_endpoints[2].source_page = PageOrder[2]

\* C37: the normalized url of every page navigated to is in the visited
\* set from the moment navigation begins, whether the visit fails or not;
\* every visit counts one against max_pages; a page whose visit failed is
\* in result.pages_visited; no two navigations have one normalized url.
C37_VisitedBeforeNavigation ==
    /\ \A i \in 1..Len(navigated) : _normalize_url(navigated[i]) \in visited_urls
    /\ (pc = "page") => (_normalize_url(current_page_url) \in visited_urls)
    /\ Cardinality(visited_urls) = Len(navigated)
    /\ Len(navigated) <= max_pages
    /\ \A i, j \in 1..Len(navigated) :
        (i # j) => (_normalize_url(navigated[i]) # _normalize_url(navigated[j]))
    /\ \A e \in 1..Len(errors) :
        (errors[e].kind = "crawl") =>
            (/\ _normalize_url(errors[e].url) \in visited_urls
             /\ result.returned => (_normalize_url(errors[e].url) \in result.pages_visited))

\* the second page was in the frontier twice and its visit failed: the
\* second entry was dropped when dequeued, the crawl ended with two pages
\* visited and the failed page among them
C37_Witness ==
    /\ result.returned
    /\ max_pages = 3
    /\ Len(navigated) = 2
    /\ navigated[2] \in skipped
    /\ \E e \in 1..Len(errors) :
        /\ errors[e].kind = "crawl"
        /\ errors[e].url = navigated[2]
    /\ _normalize_url(navigated[2]) \in result.pages_visited

\* C38: with max_pages >= 1, whenever the crawl is at the head of its
\* loop, the visited pages and the frontier entries together are at most
\* max_pages.
C38_FrontierWithinBudget ==
    (max_pages >= 1 /\ pc = "loop") =>
        (Cardinality(visited_urls) + Len(urls_to_visit) <= max_pages)

\* at the head of the loop after two visits, with the one frontier entry
\* the budget of three leaves room for
C38_Witness ==
    /\ pc = "loop"
    /\ max_pages = 3
    /\ Cardinality(visited_urls) = 2
    /\ Len(urls_to_visit) = 1
    /\ urls_to_visit[1][2] = 2

\* the crawl tasks that exist and are not done
ActiveTasks == {t \in 1..Len(tasks) : ~done(t)}

\* C39: at most one crawl task is not done; a start request is accepted
\* only when no crawl task is alive; the handle in crawl_state is cleared
\* only when the task it names is done, and apart from a stop request the
\* running flag is cleared only by the end of the newest task, so no
\* cleanup takes the flag or the handle from a crawl started after it.
C39_OneActiveCrawl ==
    /\ [](Cardinality(ActiveTasks) <= 1)
    /\ [][/\ (Len(tasks') > Len(tasks)) => (ActiveTasks = {})
          /\ (crawl_task # no_task /\ crawl_task' = no_task) =>
                (tasks'[crawl_task].pc = "done")
          /\ (running /\ ~running' /\ stops' = stops) =>
                (\A t \in ActiveTasks :
                    (tasks'[t].pc = "done") => (t = Len(tasks)))]_vars
====
